---- MODULE Spec2Model ----
(***************************************************************************)
(* Model of the API answering pipeline of hdu_memorize_words:              *)
(*   app/hdu_api_client.py   api_mode_answer                               *)
(*   app/question_processor.py  QuestionProcessor                          *)
(*   app/utils.py            save_error                                    *)
(*                                                                         *)
(* A text (Python str) is a sequence of one-character strings.  The        *)
(* full-width bar U+FF5C is written "FW".                                  *)
(*                                                                         *)
(* Spec      : the pipeline with a file system whose writes succeed.       *)
(* SpecFault : the same pipeline when a write of questions.json.tmp or of  *)
(*             error.txt may raise.                                        *)
(***************************************************************************)
EXTENDS Integers, Sequences, FiniteSets, TLC

VARIABLES
    pc,                 \* position in api_mode_answer
    now,                \* time.time(), in whole seconds
    expected_score,     \* argument expected_score
    answer_time,        \* argument answer_time
    ai_enabled,         \* self.ai_config and self.ai_config.get("enabled")
    questions_json,     \* content of the file questions.json
    question_bank,      \* QuestionProcessor.question_bank (in memory)
    error_txt,          \* content of the file error.txt, a sequence of records
    ai_calls,           \* number of calls of ai_choose_answer
    start_time,         \* local start_time
    questions,          \* local questions (paper_data['list'])
    wrong_count,        \* local wrong_count
    wrong_indices,      \* local wrong_indices
    idx,                \* loop variable idx: index of the next question
    correct_answers,    \* value of correct_answer_idx of every iteration so far
    judge,              \* what ai_choose_answer returned in every iteration so far
    wrong_options,      \* local wrong_options of the last iteration
    final_answers,      \* local final_answers
    elapsed_time,       \* local elapsed_time
    submitted_at,       \* time at which submit_paper was called, -1 before
    result,             \* value returned by api_mode_answer
    x_auth_token,       \* local x_auth_token: what login returned, <<>> for None
    week,               \* local week: what fetch_current_week returned, 0 for None
    tickets,            \* number of calls of generate_skl_ticket so far
    sent,               \* the HTTP requests issued so far, in order
    payload,            \* payload['list'] of the POST of submit_paper
    paper_data,         \* local paper_data: what get_new_paper returned
    lpc,                \* position in HDUAuthService.login
    crypto_key,         \* local crypto_key of login
    execution,          \* local execution of login
    current_url,        \* local current_url of _exchange_ticket_for_token
    referer,            \* local referer of _exchange_ticket_for_token
    hop,                \* loop variable i of _exchange_ticket_for_token
    cookies,            \* the X-Auth-Token cookie of self.session.cookies
    received,           \* the responses to the requests of sent, in order
    rpc,                \* position in QuestionProcessor._persist_answer
    persist_question,   \* argument question of _persist_answer
    persist_chosen,     \* local chosen_answer of _persist_answer
    current_bank,       \* local current_bank of _persist_answer
    persist_action,     \* local action of _persist_answer
    tmp_file,           \* content of the file questions.json.tmp
    partial,            \* the files that hold only a part of their content
    observed,           \* what another process last read from questions.json
    store_before,       \* questions.json when _persist_answer was last called
    recordings,         \* number of calls of _persist_answer so far
    norm_input,         \* argument s of _normalize_text
    norm_output,        \* what _normalize_text returned, call after call
    config_yaml,        \* the ai section of config.yaml as load_ai_config read it
    ai_cfg,             \* argument cfg of ai_choose_answer
    jpc,                \* position in ai_choose_answer
    attempt,            \* loop variable attempt of ai_choose_answer
    ai_requests,        \* number of requests.post calls of ai_choose_answer
    ai_resp,            \* the response to the last request of ai_choose_answer
    ai_returned,        \* what ai_choose_answer returned
    ai_sleeps,          \* the time.sleep calls of ai_choose_answer, in 0.1 s
    bpc,                \* position of the main thread in _start_browser_mode
    timers,             \* the timer threads started by _start_timer, in order
    timer_expired,      \* self.timer_expired
    timer_lock,         \* holder of self.timer_lock: 0 nobody, -1 the main
                        \* thread, k the k-th timer thread
    question_options,   \* local question_options of _start_browser_mode
    loop_done_at,       \* time at which the answering loop was left, -1 before
    expired_at,         \* time at which timer_expired became True, -1 before
    clicked_at          \* time at which wait clicked the submit button, -1 before

vars == <<pc, now, expected_score, answer_time, ai_enabled, questions_json,
          question_bank, error_txt, ai_calls, start_time, questions,
          wrong_count, wrong_indices, idx, correct_answers, judge,
          wrong_options, final_answers, elapsed_time, submitted_at, result,
          x_auth_token, week, tickets, sent, payload, paper_data,
          lpc, crypto_key, execution, current_url, referer, hop, cookies,
          received,
          rpc, persist_question, persist_chosen, current_bank, persist_action,
          tmp_file, partial, observed, store_before, recordings,
          norm_input, norm_output,
          config_yaml, ai_cfg, jpc, attempt, ai_requests, ai_resp, ai_returned,
          ai_sleeps,
          bpc, timers, timer_expired, timer_lock, question_options,
          loop_done_at, expired_at, clicked_at>>

\* the state of api_mode_answer and of the question processor
run_vars == <<pc, now, expected_score, answer_time, ai_enabled, questions_json,
              question_bank, error_txt, ai_calls, start_time, questions,
              wrong_count, wrong_indices, idx, correct_answers, judge,
              wrong_options, final_answers, elapsed_time, submitted_at, result>>

\* what api_mode_answer exchanges with the servers
io_vars == <<x_auth_token, week, tickets, sent, payload, paper_data, received>>

\* the locals of HDUAuthService.login and of the methods it calls
login_vars == <<lpc, crypto_key, execution, current_url, referer, hop, cookies>>

\* the locals of _persist_answer, the files it writes and who reads them
record_vars == <<rpc, persist_question, persist_chosen, current_bank,
                 persist_action, tmp_file, partial, observed, store_before,
                 recordings>>

\* _normalize_text called on its own
normalize_vars == <<norm_input, norm_output>>

\* the configuration of the judge and the locals of ai_choose_answer
judge_vars == <<config_yaml, ai_cfg, jpc, attempt, ai_requests, ai_resp,
                ai_returned, ai_sleeps>>

\* the threads of the browser mode
browser_vars == <<bpc, timers, timer_expired, timer_lock, question_options,
                  loop_done_at, expired_at, clicked_at>>

\* the state of the components that are also modelled step by step
component_vars == <<record_vars, normalize_vars, judge_vars, browser_vars>>

-----------------------------------------------------------------------------
(* Bounds of the model *)

\* longest paper the server returns
MaxQuestions == 2
\* last instant at which the clock still advances while the run works
MaxTime == 3

-----------------------------------------------------------------------------
(* Texts *)

Whitespace == {" "}
Bars == {"|", "FW"}

MinOf(S) == CHOOSE x \in S : \A y \in S : x <= y
MaxOf(S) == CHOOSE x \in S : \A y \in S : x >= y

\* the positions of s that hold no whitespace
Inked(s) == {i \in 1..Len(s) : s[i] \notin Whitespace}

\* str.lstrip()
LStrip(s) == IF Inked(s) = {} THEN <<>> ELSE SubSeq(s, MinOf(Inked(s)), Len(s))

\* str.rstrip()
RStrip(s) == IF Inked(s) = {} THEN <<>> ELSE SubSeq(s, 1, MaxOf(Inked(s)))

\* str.strip()
Strip(s) ==
    IF Inked(s) = {} THEN <<>> ELSE SubSeq(s, MinOf(Inked(s)), MaxOf(Inked(s)))

\* str.rstrip('.')
RStripDot(s) ==
    LET kept == {i \in 1..Len(s) : s[i] # "."}
    IN  IF kept = {} THEN <<>> ELSE SubSeq(s, 1, MaxOf(kept))

\* q_data.get(key, '').strip().rstrip('.')
CleanField(s) == RStripDot(Strip(s))

NotSpace(c) == c \notin Whitespace

\* a plausible slip: re.sub with count=1, only the first run of whitespace
\* is removed
_normalize_text_first_run(s) ==
    LET ws == {i \in 1..Len(s) : s[i] \in Whitespace}
        first == MinOf(ws)
        last == MaxOf({k \in first..Len(s) : \A m \in first..k : m \in ws})
    IN  IF ws = {} THEN Strip(s)
        ELSE Strip(SubSeq(s, 1, first - 1) \o SubSeq(s, last + 1, Len(s)))

\* re.sub(r"\s+", "", str(s)).strip()
_normalize_text(s) == Strip(SelectSeq(s, NotSpace))

\* the pieces of s between its bars
SplitAtBars(s) ==
    LET bars == {i \in 1..Len(s) : s[i] \in Bars}
        n == Cardinality(bars)
        Pos(k) == IF k = 0 THEN 0
                  ELSE IF k = n + 1 THEN Len(s) + 1
                  ELSE CHOOSE p \in bars : Cardinality({q \in bars : q < p}) = k - 1
    IN  [k \in 1..(n + 1) |-> SubSeq(s, Pos(k - 1) + 1, Pos(k) - 1)]

\* re.split(r"\s*[|FW]\s*", s): a separator takes the whitespace around its bar
ReSplit(s) ==
    LET raw == SplitAtBars(s)
        n == Len(raw)
    IN  [i \in 1..n |->
            LET left == IF i > 1 THEN LStrip(raw[i]) ELSE raw[i]
            IN  IF i < n THEN RStrip(left) ELSE left]

NonBlank(p) == Strip(p) # <<>>

\* [p for p in re.split(...) if p.strip()]
SplitMeanings(s) == SelectSeq(ReSplit(s), NonBlank)

RECURSIVE Flatten(_)
Flatten(ss) == IF ss = <<>> THEN <<>> ELSE Head(ss) \o Flatten(Tail(ss))

\* " | ".join(meanings)
RECURSIVE JoinMeanings(_)
JoinMeanings(ms) ==
    IF ms = <<>> THEN <<>>
    ELSE IF Len(ms) = 1 THEN ms[1]
    ELSE ms[1] \o <<" ", "|", " ">> \o JoinMeanings(Tail(ms))

-----------------------------------------------------------------------------
(* Knowledge base: a value of questions.json is a str or a list of str *)

NoEntry == [kind |-> "none", items |-> <<>>]
StrEntry(s) == [kind |-> "str", items |-> <<s>>]
ListEntry(ss) == [kind |-> "list", items |-> ss]

\* the meanings of a stored value, in stored order
EntryMeanings(e) == Flatten([i \in 1..Len(e.items) |-> SplitMeanings(e.items[i])])

\* truth value of a stored value
Truthy(e) ==
    \/ e.kind = "str" /\ e.items[1] # <<>>
    \/ e.kind = "list" /\ e.items # <<>>

\* unique_ordered_meanings: normalized, first occurrences, none empty
UniqueOrdered(ms) ==
    LET norms == [i \in 1..Len(ms) |-> _normalize_text(ms[i])]
        First(i) == norms[i] # <<>> /\ \A j \in 1..(i - 1) : norms[j] # norms[i]
        kept == SelectSeq([i \in 1..Len(ms) |-> i], First)
    IN  [k \in 1..Len(kept) |-> norms[kept[k]]]

\* index (0..3) of the first option equal to the meaning, or -1
OptionOf(norm_meaning, options) ==
    IF \E i \in 1..4 : _normalize_text(options[i]) = norm_meaning
    THEN (CHOOSE i \in 1..4 :
            /\ _normalize_text(options[i]) = norm_meaning
            /\ \A j \in 1..(i - 1) : _normalize_text(options[j]) # norm_meaning) - 1
    ELSE -1

\* a plausible slip: options scanned in the outer loop, meanings in the inner
MatchOptionsByOption(ums, options) ==
    IF \E i \in 1..4 : \E k \in 1..Len(ums) : _normalize_text(options[i]) = ums[k]
    THEN (CHOOSE i \in 1..4 :
            /\ \E k \in 1..Len(ums) : _normalize_text(options[i]) = ums[k]
            /\ \A j \in 1..(i - 1) :
                  \A k \in 1..Len(ums) : _normalize_text(options[j]) # ums[k]) - 1
    ELSE -1

\* the two nested loops: meanings outside, options inside
MatchOptions(ums, options) ==
    LET hits == {k \in 1..Len(ums) : OptionOf(ums[k], options) # -1}
    IN  IF hits = {} THEN -1 ELSE OptionOf(ums[MinOf(hits)], options)

-----------------------------------------------------------------------------
(* questions.json as a dict: a function from the stored titles to values *)

\* dict.get(question)
Get(bank, question) ==
    IF question \in DOMAIN bank THEN bank[question] ELSE NoEntry

\* bank[question] = value
Put(bank, question, value) ==
    [q \in DOMAIN bank \cup {question} |->
        IF q = question THEN value ELSE bank[q]]

EmptyBank == [q \in {} |-> NoEntry]

\* step 1 of get_answer_index: the bank's answer, or -1
BankLookup(bank, question, options) ==
    LET expected_answers == Get(bank, question)
    IN  IF Truthy(expected_answers)
        THEN MatchOptions(UniqueOrdered(EntryMeanings(expected_answers)), options)
        ELSE -1

\* a plausible slip: the blank answer is written like any other
_persist_answer_blank_too(file, question, chosen_answer, write_ok) ==
    LET chosen == Strip(chosen_answer)
        existing == Get(file, question)
        meanings == EntryMeanings(existing)
        seen == {_normalize_text(meanings[i]) : i \in 1..Len(meanings)}
        fresh == existing = NoEntry \/ _normalize_text(chosen) \notin seen
        value == IF existing = NoEntry
                 THEN StrEntry(chosen)
                 ELSE StrEntry(JoinMeanings(Append(meanings, chosen)))
    IN  IF fresh /\ write_ok
        THEN [written |-> TRUE, bank |-> Put(file, question, value)]
        ELSE [written |-> FALSE, bank |-> file]

\* a plausible slip: questions.json is opened for writing in place, and a
\* write that fails leaves it empty
_persist_answer_in_place(file, question, chosen_answer, write_ok) ==
    LET chosen == Strip(chosen_answer)
        existing == Get(file, question)
        meanings == EntryMeanings(existing)
        seen == {_normalize_text(meanings[i]) : i \in 1..Len(meanings)}
        fresh == existing = NoEntry \/ _normalize_text(chosen) \notin seen
        value == IF existing = NoEntry
                 THEN StrEntry(chosen)
                 ELSE StrEntry(JoinMeanings(Append(meanings, chosen)))
    IN  IF chosen # <<>> /\ fresh
        THEN IF write_ok
             THEN [written |-> TRUE, bank |-> Put(file, question, value)]
             ELSE [written |-> FALSE, bank |-> EmptyBank]
        ELSE [written |-> FALSE, bank |-> file]

\* _persist_answer: what questions.json holds afterwards, and whether it was
\* rewritten; write_ok is whether writing the temporary file and renaming it
\* succeed
_persist_answer(file, question, chosen_answer, write_ok) ==
    LET chosen == Strip(chosen_answer)
        existing == Get(file, question)
        meanings == EntryMeanings(existing)
        seen == {_normalize_text(meanings[i]) : i \in 1..Len(meanings)}
        fresh == existing = NoEntry \/ _normalize_text(chosen) \notin seen
        value == IF existing = NoEntry
                 THEN StrEntry(chosen)
                 ELSE StrEntry(JoinMeanings(Append(meanings, chosen)))
    IN  IF chosen # <<>> /\ fresh /\ write_ok
        THEN [written |-> TRUE, bank |-> Put(file, question, value)]
        ELSE [written |-> FALSE, bank |-> file]

\* save_error: error.txt with the record of an unrecognized question appended
save_error(log, question, options) ==
    Append(log, [question |-> question, options |-> options])

\* a plausible slip: the judge is asked before the bank is consulted
get_answer_index_judge_first(mem, file, question, options, enabled, ai_idx, write_ok) ==
    LET hit == BankLookup(mem, question, options)
        saved == _persist_answer(file, question, options[ai_idx + 1], write_ok)
    IN  IF enabled /\ ai_idx # -1
        THEN [idx |-> ai_idx, asked |-> TRUE, logged |-> FALSE,
              question_bank |-> IF saved.written THEN saved.bank ELSE mem,
              questions_json |-> saved.bank]
        ELSE IF hit # -1
        THEN [idx |-> hit, asked |-> enabled, logged |-> FALSE,
              question_bank |-> mem, questions_json |-> file]
        ELSE [idx |-> -1, asked |-> enabled, logged |-> TRUE,
              question_bank |-> mem, questions_json |-> file]

\* a plausible slip: an unresolved question is not written to error.txt
get_answer_index_no_log(mem, file, question, options, enabled, ai_idx, write_ok) ==
    LET hit == BankLookup(mem, question, options)
        saved == _persist_answer(file, question, options[ai_idx + 1], write_ok)
    IN  IF hit # -1
        THEN [idx |-> hit, asked |-> FALSE, logged |-> FALSE,
              question_bank |-> mem, questions_json |-> file]
        ELSE IF enabled /\ ai_idx # -1
        THEN [idx |-> ai_idx, asked |-> TRUE, logged |-> FALSE,
              question_bank |-> IF saved.written THEN saved.bank ELSE mem,
              questions_json |-> saved.bank]
        ELSE [idx |-> -1, asked |-> enabled, logged |-> FALSE,
              question_bank |-> mem, questions_json |-> file]

\* a plausible slip: the default answer of an unresolved question is learned
get_answer_index_learns_default(mem, file, question, options, enabled, ai_idx, write_ok) ==
    LET hit == BankLookup(mem, question, options)
        saved == _persist_answer(file, question, options[ai_idx + 1], write_ok)
        guess == _persist_answer(file, question, options[1], write_ok)
    IN  IF hit # -1
        THEN [idx |-> hit, asked |-> FALSE, logged |-> FALSE,
              question_bank |-> mem, questions_json |-> file]
        ELSE IF enabled /\ ai_idx # -1
        THEN [idx |-> ai_idx, asked |-> TRUE, logged |-> FALSE,
              question_bank |-> IF saved.written THEN saved.bank ELSE mem,
              questions_json |-> saved.bank]
        ELSE [idx |-> -1, asked |-> enabled, logged |-> TRUE,
              question_bank |-> IF guess.written THEN guess.bank ELSE mem,
              questions_json |-> guess.bank]

\* a plausible slip: the bank in memory is not updated after the write
get_answer_index_stale_memory(mem, file, question, options, enabled, ai_idx, write_ok) ==
    LET hit == BankLookup(mem, question, options)
        saved == _persist_answer(file, question, options[ai_idx + 1], write_ok)
    IN  IF hit # -1
        THEN [idx |-> hit, asked |-> FALSE, logged |-> FALSE,
              question_bank |-> mem, questions_json |-> file]
        ELSE IF enabled /\ ai_idx # -1
        THEN [idx |-> ai_idx, asked |-> TRUE, logged |-> FALSE,
              question_bank |-> mem, questions_json |-> saved.bank]
        ELSE [idx |-> -1, asked |-> enabled, logged |-> TRUE,
              question_bank |-> mem, questions_json |-> file]

\* get_answer_index.  ai_idx is what ai_choose_answer returns if it is called.
\* idx: the value returned; asked: ai_choose_answer was called; logged:
\* save_error was called; question_bank, questions_json: the bank in memory
\* and on disk afterwards.
get_answer_index(mem, file, question, options, enabled, ai_idx, write_ok) ==
    LET hit == BankLookup(mem, question, options)
        saved == _persist_answer(file, question, options[ai_idx + 1], write_ok)
    IN  IF hit # -1
        THEN [idx |-> hit, asked |-> FALSE, logged |-> FALSE,
              question_bank |-> mem, questions_json |-> file]
        ELSE IF enabled /\ ai_idx # -1
        THEN [idx |-> ai_idx, asked |-> TRUE, logged |-> FALSE,
              question_bank |-> IF saved.written THEN saved.bank ELSE mem,
              questions_json |-> saved.bank]
        ELSE [idx |-> -1, asked |-> enabled, logged |-> TRUE,
              question_bank |-> mem, questions_json |-> file]

-----------------------------------------------------------------------------
(* api_mode_answer *)

Letters == <<"A", "B", "C", "D">>

\* chr(i + 65)
Chr(i) == Letters[i + 1]

\* a plausible slip: the misses are a share of the paper
WrongCountProportional(score, n) == ((100 - score) * n) \div 100

\* wrong_count: 100 - expected_score, kept within 0 .. len(questions)
WrongCount(score, n) ==
    IF 100 - score < 0 THEN 0
    ELSE IF 100 - score > n THEN n
    ELSE 100 - score

\* the values of set(random.sample(range(n), k))
SampleSets(n, k) == {S \in SUBSET (0..(n - 1)) : Cardinality(S) = k}

\* a plausible slip: no default, the letter is chr(-1 + 65) for -1
CorrectAnswerCharNoDefault(correct_answer_idx) ==
    IF correct_answer_idx # -1 THEN Chr(correct_answer_idx) ELSE "@"

\* correct_answer_char: 'A' when get_answer_index returned -1
CorrectAnswerChar(correct_answer_idx) ==
    IF correct_answer_idx # -1 THEN Chr(correct_answer_idx) ELSE "A"

\* a plausible slip: the candidates are not filtered
WrongOptionsAllFour(correct_answer_char) == Letters

\* [chr(i + 65) for i in range(4) if chr(i + 65) != correct_answer_char]
WrongOptions(correct_answer_char) ==
    LET Other(c) == c # correct_answer_char
    IN  SelectSeq(Letters, Other)

\* a plausible slip: the whole answer_time is slept, whatever has elapsed
RemainingTimeFull(configured, elapsed) == configured

\* remaining_time = answer_time - elapsed_time
RemainingTime(configured, elapsed) == configured - elapsed

\* the four options of a question of the paper, as the loop reads them
Options(q_data) ==
    <<CleanField(q_data.answerA), CleanField(q_data.answerB),
      CleanField(q_data.answerC), CleanField(q_data.answerD)>>

Title(q_data) == CleanField(q_data.title)

Elements(seq) == {seq[i] : i \in 1..Len(seq)}

\* lines 474-491 of the iteration, got being what get_answer_index did.
\* choices: the letters final_answer_char can be; computed: wrong_options was
\* assigned in this iteration.
ChooseFinalAnswer(q_data, i, wrong, pick, got) ==
    LET correct_answer_char == CorrectAnswerChar(got.idx)
        missed == i \in wrong /\ WrongOptions(correct_answer_char) # <<>>
    IN  [title |-> Title(q_data),
         options |-> Options(q_data),
         correct_answer_idx |-> got.idx,
         correct_answer_char |-> correct_answer_char,
         computed |-> i \in wrong,
         wrong_options |-> WrongOptions(correct_answer_char),
         choices |-> IF missed THEN Elements(WrongOptions(correct_answer_char))
                     ELSE {correct_answer_char},
         answer |-> [paperDetailId |-> q_data.paperDetailId,
                     answer |-> IF missed THEN pick ELSE correct_answer_char],
         asked |-> got.asked,
         logged |-> got.logged,
         question_bank |-> got.question_bank,
         questions_json |-> got.questions_json]

\* a plausible slip: the bank learns the option that is submitted
LearnSubmitted(mem, file, write_ok, a, saved) ==
    IF a.asked /\ a.correct_answer_idx # -1
    THEN [a EXCEPT !.questions_json = saved.bank,
                   !.question_bank = IF saved.written THEN saved.bank ELSE mem]
    ELSE a

SubmittedOption(a) ==
    a.options[CHOOSE k \in 1..4 : Letters[k] = a.answer.answer]

RelearnSubmitted(mem, file, write_ok, a) ==
    LearnSubmitted(mem, file, write_ok, a,
                   _persist_answer(file, a.title, SubmittedOption(a), write_ok))

AnswerQuestionLearnsSubmitted(q_data, i, mem, file, enabled, wrong, ai_idx, write_ok, pick) ==
    RelearnSubmitted(mem, file, write_ok,
        ChooseFinalAnswer(q_data, i, wrong, pick,
            get_answer_index(mem, file, Title(q_data), Options(q_data),
                           enabled, ai_idx, FALSE)))

\* one iteration of the loop over the questions.  ai_idx is what
\* ai_choose_answer returns if it is called, pick what random.choice returns
\* if it is called.
AnswerQuestion(q_data, i, mem, file, enabled, wrong, ai_idx, write_ok, pick) ==
    ChooseFinalAnswer(q_data, i, wrong, pick,
        get_answer_index(mem, file, Title(q_data), Options(q_data),
                       enabled, ai_idx, write_ok))

-----------------------------------------------------------------------------
(* The inputs: papers of the server, contents of questions.json, settings *)

QuestionA ==
    [paperDetailId |-> 11, title |-> <<"t", ".">>,
     answerA |-> <<"a">>, answerB |-> <<" ", "b">>,
     answerC |-> <<"c", ".">>, answerD |-> <<"d">>]

QuestionB ==
    [paperDetailId |-> 12, title |-> <<"u">>,
     answerA |-> <<".">>, answerB |-> <<"a", " ", "b">>,
     answerC |-> <<"a", "b">>, answerD |-> <<"d">>]

RawQuestions == {QuestionA, QuestionB}

Papers == UNION {[1..n -> RawQuestions] : n \in 1..MaxQuestions}

BankOfMeanings ==
    Put(Put(EmptyBank, <<"t">>, StrEntry(<<"c", " ", "|", " ", "a">>)),
        <<"u">>, ListEntry(<<<<"e">>, <<" ", "a", " ", "b", "FW", "d">>>>))

BankWithoutMatch ==
    Put(Put(EmptyBank, <<"t">>, StrEntry(<<"e">>)), <<"u">>, StrEntry(<<>>))

Banks == {EmptyBank, BankOfMeanings, BankWithoutMatch}

Scores == {80, 99, 100, 101}

AnswerTimes == {2}

JudgeAnswers == -1..3

-----------------------------------------------------------------------------
(* HDUAuthService: texts of URLs, the key of the login page, the cipher *)

\* str.split(c), c one character
Split(s, c) ==
    LET at == {i \in 1..Len(s) : s[i] = c}
        n == Cardinality(at)
        Pos(k) == IF k = 0 THEN 0
                  ELSE IF k = n + 1 THEN Len(s) + 1
                  ELSE CHOOSE p \in at : Cardinality({q \in at : q < p}) = k - 1
    IN  [k \in 1..(n + 1) |-> SubSeq(s, Pos(k - 1) + 1, Pos(k) - 1)]

\* sub in s
Contains(s, sub) ==
    \E i \in 0..(Len(s) - Len(sub)) : SubSeq(s, i + 1, i + Len(sub)) = sub

\* str.lstrip(c), c one character
LStripChar(s, c) ==
    LET kept == {i \in 1..Len(s) : s[i] # c}
    IN  IF kept = {} THEN <<>> ELSE SubSeq(s, MinOf(kept), Len(s))

\* n copies of the character c
Rep(c, n) == [i \in 1..n |-> c]

\* None where a str is expected: both are false in a condition
None == <<>>

\* 'token=' and 'token'
TokenEq == <<"t", "o", "k", "e", "n", "=">>
TokenName == <<"t", "o", "k", "e", "n">>

\* '=' in param
HasEq(param) == Contains(param, <<"=">>)

\* [param.split('=') for param in fragment.lstrip('?').split('&') if '=' in param]
ParamPairs(fragment) ==
    LET params == SelectSeq(Split(LStripChar(fragment, "?"), "&"), HasEq)
    IN  [k \in 1..Len(params) |-> Split(params[k], "=")]

\* dict(pairs).get('token'): dict raises ValueError on an element that is not
\* a pair; a later pair of the same key replaces an earlier one
DictGetToken(pairs) ==
    LET named == {k \in 1..Len(pairs) : pairs[k][1] = TokenName}
    IN  IF \E k \in 1..Len(pairs) : Len(pairs[k]) # 2
        THEN [raised |-> TRUE, token |-> None]
        ELSE IF named = {}
        THEN [raised |-> FALSE, token |-> None]
        ELSE [raised |-> FALSE, token |-> pairs[MaxOf(named)][2]]

\* lines 173-184 of _exchange_ticket_for_token: the token the Location of a
\* 302 gives, None when it gives none, or the exception that is raised
TokenOfLocation(location) ==
    IF Contains(location, TokenEq) /\ Contains(location, <<"#">>)
          /\ Contains(Split(location, "#")[2], TokenEq)
    THEN DictGetToken(ParamPairs(Split(location, "#")[2]))
    ELSE [raised |-> FALSE, token |-> None]

\* the base64 alphabet
B64Chars ==
    {"A", "B", "C", "D", "E", "F", "G", "H", "I", "J", "K", "L", "M", "N", "O",
     "P", "Q", "R", "S", "T", "U", "V", "W", "X", "Y", "Z", "a", "b", "c", "d",
     "e", "f", "g", "h", "i", "j", "k", "l", "m", "n", "o", "p", "q", "r", "s",
     "t", "u", "v", "w", "x", "y", "z", "0", "1", "2", "3", "4", "5", "6", "7",
     "8", "9", "+", "/"}

IsB64(c) == c \in B64Chars

IsPad(c) == c = "="

\* base64.b64decode(key_b64) for a text whose '=' are at its end: characters
\* outside the alphabet are discarded; ok is FALSE when binascii.Error is
\* raised, len is the number of bytes of the key
B64Decode(key_b64) ==
    LET d == Len(SelectSeq(key_b64, IsB64))
        p == Len(SelectSeq(key_b64, IsPad))
    IN  IF d % 4 = 0 THEN [ok |-> TRUE, len |-> 3 * (d \div 4)]
        ELSE IF d % 4 = 2 /\ p >= 2 THEN [ok |-> TRUE, len |-> 3 * (d \div 4) + 1]
        ELSE IF d % 4 = 3 /\ p >= 1 THEN [ok |-> TRUE, len |-> 3 * (d \div 4) + 2]
        ELSE [ok |-> FALSE, len |-> 0]

\* the key sizes AES.new accepts, in bytes
AESKeySizes == {16, 24, 32}

\* a plausible slip: a key of any size is used
encrypt_any_key(key_b64, plaintext) ==
    [raised |-> FALSE,
     value |-> [key |-> SelectSeq(key_b64, IsB64), plaintext |-> plaintext]]

\* AESECBEncryptor.encrypt: the ciphertext, as the term (key, plaintext), or
\* the exception of b64decode or of AES.new
encrypt(key_b64, plaintext) ==
    IF B64Decode(key_b64).ok /\ B64Decode(key_b64).len \in AESKeySizes
    THEN [raised |-> FALSE,
          value |-> [key |-> SelectSeq(key_b64, IsB64), plaintext |-> plaintext]]
    ELSE [raised |-> TRUE, value |-> [key |-> <<>>, plaintext |-> <<>>]]

\* LOGIN_URL
LOGIN_URL ==
    <<"h", "t", "t", "p", "s", ":", "/", "/", "s", "s", "o", ".", "h", "d", "u",
      ".", "e", "d", "u", ".", "c", "n", "/", "l", "o", "g", "i", "n">>

\* max_redirects
max_redirects == 10

\* an HTTP request: which call issued it, its URL, and its X-Auth-Token and
\* skl-ticket headers (None and 0 when it has none)
Request(step, url, token, ticket) ==
    [step |-> step, url |-> url, token |-> token, ticket |-> ticket]

\* re.search(r'<p[^>]*id="..."[^>]*>([^<]+)</p>', resp.text).group(1), elements
\* being the contents of the <p> elements of that id; None without a match
SearchGroup(elements) ==
    IF \E t \in elements : t # <<>>
    THEN CHOOSE t \in elements : t # <<>>
    ELSE None

\* a plausible slip: only the key is required
LoginTokensKeyOnly(page) ==
    IF ~page.raised /\ SearchGroup(page.croypto) # None
    THEN [ok |-> TRUE, crypto_key |-> SearchGroup(page.croypto),
          execution |-> SearchGroup(page.flowkey)]
    ELSE [ok |-> FALSE, crypto_key |-> None, execution |-> None]

\* _fetch_login_tokens and the test login makes of what it returns:
\* crypto_key and execution, both None unless both elements match; ok is
\* FALSE when login returns None
LoginTokens(page) ==
    IF ~page.raised /\ SearchGroup(page.croypto) # None
          /\ SearchGroup(page.flowkey) # None
    THEN [ok |-> TRUE, crypto_key |-> SearchGroup(page.croypto),
          execution |-> SearchGroup(page.flowkey)]
    ELSE [ok |-> FALSE, crypto_key |-> None, execution |-> None]

\* a plausible slip: the Location of any response is followed
TicketUrlAnyStatus(resp) ==
    IF ~resp.raised THEN resp.location ELSE None

\* _post_login_form after the POST: the Location of a 302, else None
TicketUrl(resp) ==
    IF ~resp.raised /\ resp.status = 302 THEN resp.location ELSE None

\* a plausible slip: the loop makes one more round
ExhaustedLate(i) == i = max_redirects + 1

\* for i in range(max_redirects): no round is left after round i - 1
Exhausted(i) == i = max_redirects

\* one round of the loop of _exchange_ticket_for_token after its GET, jar
\* being the cookie jar once the response is in: the round returns a token,
\* goes on to the next round, breaks out of the loop, or raises
HopOutcome(resp, jar) ==
    IF resp.raised THEN [kind |-> "raise", token |-> None]
    ELSE IF resp.status = 302
    THEN IF TokenOfLocation(resp.location).raised
         THEN [kind |-> "raise", token |-> None]
         ELSE IF TokenOfLocation(resp.location).token # None
         THEN [kind |-> "return", token |-> TokenOfLocation(resp.location).token]
         ELSE [kind |-> "continue", token |-> None]
    ELSE IF jar.present
    THEN [kind |-> "return", token |-> jar.value]
    ELSE [kind |-> "break", token |-> None]

\* a response: its status (0 when the request raised), its Location header and
\* what is read from its body
Response(status, location, body) ==
    [status |-> status, location |-> location, body |-> body]

(* Inputs of login: pages of the SSO server, its responses *)

Password == <<"p", "w">>

\* a key of 16 bytes
GoodKey == Rep("A", 22) \o <<"=", "=">>
\* a key of 3 bytes: AES.new raises ValueError
ShortKey == Rep("A", 4)
\* not base64: b64decode raises binascii.Error
UnpaddedKey == Rep("A", 5)

Keys == {GoodKey, ShortKey, UnpaddedKey}

\* the responses to the GET of the login page
LoginPages ==
    {[raised |-> TRUE, croypto |-> {}, flowkey |-> {}]} \cup
    [raised : {FALSE},
     croypto : {{}, {<<>>}} \cup {{k} : k \in Keys},
     flowkey : {{}, {<<"e">>}}]

\* the ticket URL of the SSO server
TicketLocation == <<"s", "k", "l", "?", "t", "i", "c", "k", "e", "t", "=", "S", "T">>

\* the responses to the POST of the login form
FormResponses ==
    {[raised |-> TRUE, status |-> 0, location |-> None]} \cup
    [raised : {FALSE}, status : {200, 302, 401},
     location : {None, TicketLocation}]

\* Location headers of the redirect chain: with the token in the query of the
\* fragment's path, with the token as the fragment's query, without a token,
\* with a token holding '=', and the header missing
LocationDone ==
    <<"h", "t", "t", "p", "s", ":", "/", "/", "x", "/", "#", "/", "d", "o", "n",
      "e", "?", "t", "o", "k", "e", "n", "=", "a", "b", "c", "1", "2", "3", "&",
      "x", "=", "1">>
LocationQuery ==
    <<"h", "t", "t", "p", "s", ":", "/", "/", "x", "/", "#", "?", "t", "o", "k",
      "e", "n", "=", "a", "b", "c", "1", "2", "3", "&", "x", "=", "1">>
LocationPlain == <<"h", "t", "t", "p", "s", ":", "/", "/", "x", "/", "n">>
LocationPadded ==
    <<"x", "#", "t", "o", "k", "e", "n", "=", "a", "=", "=">>

Locations == {LocationDone, LocationQuery, LocationPlain, LocationPadded, None}

Abc123 == <<"a", "b", "c", "1", "2", "3">>

\* the value of the X-Auth-Token cookie the server sets
CookieToken == <<"c", "k">>

NoCookie == [present |-> FALSE, value |-> None]

\* the responses to a GET of the redirect chain
HopResponses ==
    {[raised |-> TRUE, status |-> 0, location |-> None, set_cookie |-> FALSE]} \cup
    [raised : {FALSE}, status : {302}, location : Locations, set_cookie : BOOLEAN] \cup
    [raised : {FALSE}, status : {200}, location : {None}, set_cookie : BOOLEAN]

\* the token login can return to api_mode_answer
Tokens == {Abc123}

-----------------------------------------------------------------------------
(* HDUApiClient *)

\* the URLs of the three calls, without their query
CourseUrl == <<"a", "p", "i", "/", "c", "o", "u", "r", "s", "e">>
PaperNewUrl == <<"a", "p", "i", "/", "p", "a", "p", "e", "r", "/", "n", "e", "w">>
PaperSaveUrl == <<"a", "p", "i", "/", "p", "a", "p", "e", "r", "/", "s", "a", "v", "e">>

\* a plausible slip: the client makes its ticket once and keeps it
generate_skl_ticket_once(n) == IF n = 0 THEN 1 ELSE n

\* generate_skl_ticket: n tickets were made before, the new one is ticket
\* n + 1; the 21 random characters are not modelled, a ticket is told from
\* the others by the call that made it
generate_skl_ticket(n) == n + 1

\* the responses to the GET of fetch_current_week; week is data.get('week', 0)
WeekResponses ==
    {[raised |-> TRUE, status |-> 0, week |-> 0]} \cup
    [raised : {FALSE}, status : {200, 500}, week : {-1, 0, 1}]

\* a plausible slip: the week of the body is returned whatever the status
WeekOfAnyStatus(resp) ==
    IF ~resp.raised /\ resp.week > 0 THEN resp.week ELSE 0

\* a plausible slip: the week of a 200 is returned whatever its value
WeekOfAnyWeek(resp) ==
    IF ~resp.raised /\ resp.status = 200 THEN resp.week ELSE 0

\* the responses to the POST of submit_paper
SubmitResponses ==
    {[raised |-> TRUE, status |-> 0]} \cup
    [raised : {FALSE}, status : {200, 201, 500}]

\* a plausible slip: every answered POST counts as a success
SubmitResultAnswered(resp) ==
    IF ~resp.raised THEN "True" ELSE "False"

\* what submit_paper returns
SubmitResult(resp) ==
    IF ~resp.raised /\ resp.status = 200 THEN "True" ELSE "False"

\* what fetch_current_week returns, 0 standing for None
WeekOf(resp) ==
    IF ~resp.raised /\ resp.status = 200 /\ resp.week > 0 THEN resp.week ELSE 0

\* the body of a response of /paper/new: the paper, an error object (phrase
\* is whether msg holds the rate-limit phrase), or a text that is not JSON
PaperBody(paper_id, list) ==
    [kind |-> "paper", paperId |-> paper_id, list |-> list, code |-> 0,
     phrase |-> FALSE]
ErrorBody(code, phrase) ==
    [kind |-> "error", paperId |-> FALSE, list |-> <<>>, code |-> code,
     phrase |-> phrase]
TextBody == [kind |-> "text", paperId |-> FALSE, list |-> <<>>, code |-> 0,
             phrase |-> FALSE]

\* None where get_new_paper returns a dict
NoPaper ==
    [kind |-> "none", paperId |-> FALSE, list |-> <<>>, code |-> 0,
     phrase |-> FALSE]

\* the responses to the GET of get_new_paper
PaperResponses ==
    {[raised |-> TRUE, status |-> 0, body |-> TextBody]} \cup
    [raised : {FALSE}, status : {200},
     body : {PaperBody(paper_id, list) :
                paper_id \in BOOLEAN, list \in Papers \cup {<<>>}}] \cup
    [raised : {FALSE}, status : {400, 500},
     body : {ErrorBody(code, phrase) : code \in {1, 2}, phrase \in BOOLEAN}
                \cup {TextBody}]

\* error_data.get('code') == 2 and the phrase in error_data.get('msg', '')
RateLimit(body) == body.kind = "error" /\ body.code = 2 /\ body.phrase

\* what get_new_paper returns: the body of a 200; None for a 400 of the rate
\* limit, for every other status, and when the request or resp.json() raises
PaperOf(resp) ==
    IF resp.raised THEN NoPaper
    ELSE IF resp.status = 200
    THEN (IF resp.body.kind = "text" THEN NoPaper ELSE resp.body)
    ELSE IF resp.status = 400
    THEN (IF resp.body.kind = "text" THEN NoPaper
          ELSE IF RateLimit(resp.body) THEN NoPaper
          ELSE NoPaper)
    ELSE NoPaper

\* a plausible slip: the list of questions is not tested
PaperUsableWithId(data) == data.kind = "paper" /\ data.paperId

\* lines 430-438 of api_mode_answer: paper_data, paper_id and questions are
\* all truthy
PaperUsable(data) ==
    data.kind = "paper" /\ data.paperId /\ data.list # <<>>

-----------------------------------------------------------------------------
(* The judge: load_ai_config and ai_choose_answer.  A character that is not   *)
(* ASCII is written by its code point, U+6811 and U+6728 being two letters    *)
(* of Chinese.                                                               *)

\* most retries config.yaml asks for
MaxRetries == 2

\* the letters str.upper() changes, and what it makes of them
LowerCase == <<"a", "b", "c", "d", "e", "r", "t">>
UpperCase == <<"A", "B", "C", "D", "E", "R", "T">>

UpperChar(c) ==
    IF \E k \in 1..Len(LowerCase) : LowerCase[k] = c
    THEN UpperCase[CHOOSE k \in 1..Len(LowerCase) : LowerCase[k] = c]
    ELSE c

\* str.upper()
Upper(s) == [i \in 1..Len(s) |-> UpperChar(s[i])]

\* the characters \w does not match
NonWord == {" ", "{", "}", "?"}

Digits == <<"1", "2", "3", "4">>

\* position of c in seq
IndexOf(seq, c) == CHOOSE k \in 1..Len(seq) : seq[k] = c

\* re.search(r"([ABCD])", text): the index of the first letter, or -1
LetterIndex(text) ==
    LET at == {i \in 1..Len(text) : text[i] \in Elements(Letters)}
    IN  IF at = {} THEN -1 ELSE IndexOf(Letters, text[MinOf(at)]) - 1

\* re.search(r"\b([1-4])\b", text): the first digit between word boundaries,
\* less 1, or -1
DigitIndex(text) ==
    LET at == {i \in 1..Len(text) :
                  /\ text[i] \in Elements(Digits)
                  /\ i = 1 \/ text[i - 1] \in NonWord
                  /\ i = Len(text) \/ text[i + 1] \in NonWord}
    IN  IF at = {} THEN -1 ELSE IndexOf(Digits, text[MinOf(at)]) - 1

\* lines 82-85: the first option whose stripped text is in text, or -1
OptionIndex(text, options) ==
    LET hits == {i \in 1..Len(options) :
                    Strip(options[i]) # <<>> /\ Contains(text, Strip(options[i]))}
    IN  IF hits = {} THEN -1 ELSE MinOf(hits) - 1

\* a plausible slip: the digit is looked for before the letter
ParseAnswerDigitFirst(content, options) ==
    LET text == Upper(Strip(content))
    IN  IF DigitIndex(text) # -1 THEN DigitIndex(text)
        ELSE IF LetterIndex(text) # -1 THEN LetterIndex(text)
        ELSE OptionIndex(text, options)

\* lines 71-85: idx of an attempt whose response holds content
ParseAnswer(content, options) ==
    LET text == Upper(Strip(content))
    IN  IF LetterIndex(text) # -1 THEN LetterIndex(text)
        ELSE IF DigitIndex(text) # -1 THEN DigitIndex(text)
        ELSE OptionIndex(text, options)

\* lines 60-96: idx of an attempt, -1 when the attempt fails: the request
\* raises, the status is not 200, resp.json() raises, or nothing is parsed
AttemptIndex(resp, options) ==
    IF resp.raised \/ resp.status # 200 \/ ~resp.json THEN -1
    ELSE ParseAnswer(resp.content, options)

\* time.sleep(0.5), in tenths of a second
backoff == 5

\* a plausible slip: the wait follows the last failed attempt too
BackoffAfterEveryFailure(attempt_no, total_attempts) == TRUE

\* lines 63-64, 91-92 and 95-96: a failed attempt is followed by the wait
\* unless it was the last
Backoff(attempt_no, total_attempts) == attempt_no < total_attempts

\* a plausible slip: the first attempt is counted as a retry
TotalAttemptsRetriesOnly(retries) == IF retries < 0 THEN 0 ELSE retries

\* total_attempts = 1 + retries, retries not below 0
TotalAttempts(retries) == 1 + (IF retries < 0 THEN 0 ELSE retries)

\* a plausible slip: enabled is not reset when base_url or model is missing
load_ai_config_unchecked(file) ==
    IF ~file.exists
    THEN [enabled |-> FALSE, base_url |-> <<>>, model |-> <<>>, retries |-> 3]
    ELSE [enabled |-> IF file.enable # "absent" THEN file.enable = "true"
                      ELSE Strip(file.base_url) # <<>> /\ Strip(file.model) # <<>>,
          base_url |-> Strip(file.base_url),
          model |-> Strip(file.model),
          retries |-> IF file.retries < 0 THEN 0 ELSE file.retries]

\* load_ai_config: the dict it returns for the ai section of config.yaml;
\* retries is 3 where the dict has no such key
load_ai_config(file) ==
    IF ~file.exists
    THEN [enabled |-> FALSE, base_url |-> <<>>, model |-> <<>>, retries |-> 3]
    ELSE [enabled |-> /\ IF file.enable # "absent" THEN file.enable = "true"
                         ELSE Strip(file.base_url) # <<>> /\ Strip(file.model) # <<>>
                      /\ Strip(file.base_url) # <<>>
                      /\ Strip(file.model) # <<>>,
          base_url |-> Strip(file.base_url),
          model |-> Strip(file.model),
          retries |-> IF file.retries < 0 THEN 0 ELSE file.retries]

(* Inputs of the judge: config.yaml, the question, the responses *)

Endpoint == <<"h", "t", "t", "p", ":", "/", "/", "a", "i">>
ModelName == <<"m">>

\* config.yaml missing, and its ai sections: the key enable (or enabled) true,
\* false or absent, base_url, model, retries
NoConfigFile ==
    [exists |-> FALSE, enable |-> "absent", base_url |-> <<>>, model |-> <<>>,
     retries |-> 0]
ConfigFiles ==
    {NoConfigFile} \cup
    [exists : {TRUE}, enable : {"absent", "true", "false"},
     base_url : {<<>>, <<" ">>, Endpoint}, model : {<<>>, ModelName},
     retries : -1..MaxRetries]

\* the options of the question the judge is asked about
JudgeOptions == << <<"t", "r", "e", "e">>, <<"U+6728">>, <<"U+6811">>, <<>> >>

\* data["choices"][0]["message"]["content"], or str(data) without it
JudgeContents ==
    {<<"B">>, <<"b">>, <<"2">>, <<"3", " ", "B">>, <<"3", " ", "a">>,
     <<"t", "2">>, <<"U+6811">>, <<"U+6811", " ", "U+6728">>,
     <<"t", "r", "e", "e">>, <<"{", "}">>, <<"T", "R", "E", "E">>}

\* the responses to requests.post
NoResponse == [raised |-> FALSE, status |-> 0, json |-> FALSE, content |-> <<>>]
JudgeResponses ==
    {[raised |-> TRUE, status |-> 0, json |-> FALSE, content |-> <<>>],
     [raised |-> FALSE, status |-> 500, json |-> TRUE, content |-> <<>>],
     [raised |-> FALSE, status |-> 200, json |-> FALSE, content |-> <<>>]} \cup
    [raised : {FALSE}, status : {200}, json : {TRUE}, content : JudgeContents]

-----------------------------------------------------------------------------
(* The state machine *)

Working == {"login", "week", "paper", "select", "resolve"}

Init ==
    /\ pc = "start"
    /\ now = 0
    /\ expected_score \in Scores
    /\ answer_time \in AnswerTimes
    /\ ai_enabled \in BOOLEAN
    /\ questions_json \in Banks
    /\ question_bank \in {questions_json, EmptyBank}
    /\ error_txt = <<>>
    /\ ai_calls = 0
    /\ start_time = 0
    /\ questions = <<>>
    /\ wrong_count = 0
    /\ wrong_indices = {}
    /\ idx = 0
    /\ correct_answers = <<>>
    /\ judge = <<>>
    /\ wrong_options = <<>>
    /\ final_answers = <<>>
    /\ elapsed_time = 0
    /\ submitted_at = -1
    /\ result = "none"
    /\ x_auth_token = None
    /\ week = 0
    /\ tickets = 0
    /\ sent = <<>>
    /\ payload = <<>>
    /\ paper_data = NoPaper
    /\ lpc = "Init"
    /\ crypto_key = None
    /\ execution = None
    /\ current_url = None
    /\ referer = None
    /\ hop = 0
    /\ cookies = NoCookie
    /\ received = <<>>
    /\ rpc = "idle"
    /\ persist_question = <<>>
    /\ persist_chosen = <<>>
    /\ current_bank = EmptyBank
    /\ persist_action = ""
    /\ tmp_file = EmptyBank
    /\ partial = {}
    /\ observed = [data |-> EmptyBank, torn |-> FALSE]
    /\ store_before = questions_json
    /\ recordings = 0
    /\ norm_input = <<>>
    /\ norm_output = <<>>
    /\ config_yaml = NoConfigFile
    /\ ai_cfg = load_ai_config(NoConfigFile)
    /\ jpc = "start"
    /\ attempt = 0
    /\ ai_requests = 0
    /\ ai_resp = NoResponse
    /\ ai_returned = {}
    /\ ai_sleeps = <<>>
    /\ bpc = "start"
    /\ timers = <<>>
    /\ timer_expired = FALSE
    /\ timer_lock = 0
    /\ question_options = {}
    /\ loop_done_at = -1
    /\ expired_at = -1
    /\ clicked_at = -1

\* start_time = time.time()
Enter ==
    /\ pc = "start"
    /\ start_time' = now
    /\ pc' = "login"
    /\ UNCHANGED <<now, expected_score, answer_time, ai_enabled, questions_json,
                   question_bank, error_txt, ai_calls, questions, wrong_count,
                   wrong_indices, idx, correct_answers, judge, wrong_options,
                   final_answers, elapsed_time, submitted_at, result>>
    /\ UNCHANGED <<io_vars, login_vars, component_vars>>

\* time passes while the run logs in, fetches and resolves
Tick ==
    /\ pc \in Working
    /\ now < MaxTime
    /\ now' = now + 1
    /\ UNCHANGED <<pc, expected_score, answer_time, ai_enabled, questions_json,
                   question_bank, error_txt, ai_calls, start_time, questions,
                   wrong_count, wrong_indices, idx, correct_answers, judge,
                   wrong_options, final_answers, elapsed_time, submitted_at,
                   result>>
    /\ UNCHANGED <<io_vars, login_vars, component_vars>>

\* a step that returns False
Fail ==
    /\ pc' = "done"
    /\ result' = "False"

\* 1. auth_service.login
login ==
    /\ pc = "login"
    /\ \E token \in Tokens \cup {None} :
          /\ x_auth_token' = token
          /\ IF token # None THEN pc' = "week" /\ result' = result ELSE Fail
    /\ sent' = Append(sent, Request("login", LOGIN_URL, None, 0))
    /\ received' = Append(received, Response(0, None, x_auth_token'))
    /\ UNCHANGED <<now, expected_score, answer_time, ai_enabled, questions_json,
                   question_bank, error_txt, ai_calls, start_time, questions,
                   wrong_count, wrong_indices, idx, correct_answers, judge,
                   wrong_options, final_answers, elapsed_time, submitted_at>>
    /\ UNCHANGED <<week, tickets, payload, paper_data, login_vars, component_vars>>

\* 2. api_client.fetch_current_week
fetch_current_week ==
    /\ pc = "week"
    /\ tickets' = generate_skl_ticket(tickets)
    /\ sent' = Append(sent, Request("week", CourseUrl, x_auth_token, tickets'))
    /\ \E resp \in WeekResponses :
          /\ received' = Append(received, Response(resp.status, None, resp.week))
          /\ week' = WeekOf(resp)
          /\ IF week' # 0 THEN pc' = "paper" /\ result' = result ELSE Fail
    /\ UNCHANGED <<now, expected_score, answer_time, ai_enabled, questions_json,
                   question_bank, error_txt, ai_calls, start_time, questions,
                   wrong_count, wrong_indices, idx, correct_answers, judge,
                   wrong_options, final_answers, elapsed_time, submitted_at>>
    /\ UNCHANGED <<x_auth_token, payload, paper_data, login_vars, component_vars>>

\* 3. api_client.get_new_paper, and the tests api_mode_answer makes of what it
\* returns: paper_data, then paper_id and questions
get_new_paper ==
    /\ pc = "paper"
    /\ tickets' = generate_skl_ticket(tickets)
    /\ sent' = Append(sent, Request("paper", PaperNewUrl, x_auth_token, tickets'))
    /\ \E resp \in PaperResponses :
          /\ received' = Append(received, Response(resp.status, None, resp.body))
          /\ paper_data' = PaperOf(resp)
          /\ IF PaperUsable(paper_data')
             THEN /\ questions' = paper_data'.list
                  /\ pc' = "select"
                  /\ result' = result
             ELSE /\ questions' = questions
                  /\ Fail
    /\ UNCHANGED <<now, expected_score, answer_time, ai_enabled, questions_json,
                   question_bank, error_txt, ai_calls, start_time,
                   wrong_count, wrong_indices, idx, correct_answers, judge,
                   wrong_options, final_answers, elapsed_time, submitted_at>>
    /\ UNCHANGED <<x_auth_token, week, payload, login_vars, component_vars>>

\* 4. wrong_count, wrong_indices and reload_question_bank
SelectWrongIndices ==
    /\ pc = "select"
    /\ wrong_count' = WrongCount(expected_score, Len(questions))
    /\ wrong_indices' \in SampleSets(Len(questions), wrong_count')
    /\ question_bank' = questions_json
    /\ idx' = 0
    /\ pc' = "resolve"
    /\ UNCHANGED <<now, expected_score, answer_time, ai_enabled, questions_json,
                   error_txt, ai_calls, start_time, questions, correct_answers,
                   judge, wrong_options, final_answers, elapsed_time,
                   submitted_at, result>>
    /\ UNCHANGED <<io_vars, login_vars, component_vars>>

\* one iteration of the loop over the questions; write_ok and log_ok are
\* whether the writes of questions.json and of error.txt succeed
ResolveQuestion(write_ok, log_ok) ==
    /\ pc = "resolve"
    /\ idx < Len(questions)
    /\ \E ai_idx \in JudgeAnswers, pick \in Elements(Letters) :
          \E a \in {AnswerQuestion(questions[idx + 1], idx, question_bank,
                                   questions_json, ai_enabled, wrong_indices,
                                   ai_idx, write_ok, pick)} :
              /\ a.answer.answer \in a.choices
              /\ a.asked \/ ai_idx = -1
              /\ ai_calls' = ai_calls + (IF a.asked THEN 1 ELSE 0)
              /\ IF a.logged /\ ~log_ok
                 THEN \* save_error raises, nothing catches it
                      /\ pc' = "raised"
                      /\ UNCHANGED <<questions_json, question_bank, error_txt,
                                     idx, correct_answers, judge, wrong_options,
                                     final_answers>>
                 ELSE /\ pc' = "resolve"
                      /\ questions_json' = a.questions_json
                      /\ question_bank' = a.question_bank
                      /\ error_txt' = IF a.logged
                                      THEN save_error(error_txt, a.title, a.options)
                                      ELSE error_txt
                      /\ idx' = idx + 1
                      /\ correct_answers' = Append(correct_answers, a.correct_answer_idx)
                      /\ judge' = Append(judge, IF a.asked THEN {ai_idx} ELSE {})
                      /\ wrong_options' = IF a.computed THEN a.wrong_options
                                          ELSE wrong_options
                      /\ final_answers' = Append(final_answers, a.answer)
    /\ UNCHANGED <<now, expected_score, answer_time, ai_enabled, start_time,
                   questions, wrong_count, wrong_indices, elapsed_time,
                   submitted_at, result>>
    /\ UNCHANGED <<io_vars, login_vars, component_vars>>

\* 5. the wait for the rest of answer_time
Pace ==
    /\ pc = "resolve"
    /\ idx = Len(questions)
    /\ elapsed_time' = now - start_time
    /\ now' = IF RemainingTime(answer_time, elapsed_time') > 0
              THEN now + RemainingTime(answer_time, elapsed_time')
              ELSE now
    /\ pc' = "submit"
    /\ UNCHANGED <<expected_score, answer_time, ai_enabled, questions_json,
                   question_bank, error_txt, ai_calls, start_time, questions,
                   wrong_count, wrong_indices, idx, correct_answers, judge,
                   wrong_options, final_answers, submitted_at, result>>
    /\ UNCHANGED <<io_vars, login_vars, component_vars>>

\* 6. api_client.submit_paper
submit_paper ==
    /\ pc = "submit"
    /\ submitted_at' = now
    /\ tickets' = generate_skl_ticket(tickets)
    /\ sent' = Append(sent, Request("submit", PaperSaveUrl, x_auth_token, tickets'))
    /\ payload' = final_answers
    /\ \E resp \in SubmitResponses :
          /\ received' = Append(received, Response(resp.status, None, None))
          /\ result' = SubmitResult(resp)
    /\ pc' = "done"
    /\ UNCHANGED <<now, expected_score, answer_time, ai_enabled, questions_json,
                   question_bank, error_txt, ai_calls, start_time, questions,
                   wrong_count, wrong_indices, idx, correct_answers, judge,
                   wrong_options, final_answers, elapsed_time>>
    /\ UNCHANGED <<x_auth_token, week, paper_data, login_vars, component_vars>>

Next ==
    \/ Enter
    \/ Tick
    \/ login
    \/ fetch_current_week
    \/ get_new_paper
    \/ SelectWrongIndices
    \/ ResolveQuestion(TRUE, TRUE)
    \/ Pace
    \/ submit_paper

Spec == Init /\ [][Next]_vars

\* a write of questions.json.tmp or of error.txt may raise
Faulty ==
    \E write_ok \in BOOLEAN, log_ok \in BOOLEAN :
        /\ ~(write_ok /\ log_ok)
        /\ ResolveQuestion(write_ok, log_ok)

NextFault == Next \/ Faulty

SpecFault == Init /\ [][NextFault]_vars

\* every call of the run returns: a network call answers or times out, a
\* sleep ends, a write succeeds or raises
SpecFair == Spec /\ WF_vars(Next)
SpecFaultFair == SpecFault /\ WF_vars(NextFault)

-----------------------------------------------------------------------------
(* HDUAuthService.login step by step *)

\* login, step 1: _fetch_login_tokens and the test of what it returns
_fetch_login_tokens ==
    /\ lpc = "Init"
    /\ sent' = Append(sent, Request("page", LOGIN_URL, None, 0))
    /\ \E page \in LoginPages :
          /\ received' = Append(received,
                Response(IF page.raised THEN 0 ELSE 200, None, page))
          /\ crypto_key' = LoginTokens(page).crypto_key
          /\ execution' = LoginTokens(page).execution
          /\ lpc' = IF LoginTokens(page).ok THEN "TokensFetched" ELSE "Failed"
    /\ UNCHANGED <<run_vars, component_vars, x_auth_token, week, tickets, payload, paper_data, current_url,
                   referer, hop, cookies>>

\* login, steps 2 and 3: the password is encrypted and _post_login_form sends
\* the form; an exception of encrypt ends login
_post_login_form ==
    /\ lpc = "TokensFetched"
    /\ IF encrypt(crypto_key, Password).raised
       THEN /\ lpc' = "Failed"
            /\ sent' = sent
       ELSE /\ lpc' = "FormSubmitted"
            /\ sent' = Append(sent, Request("form", LOGIN_URL, None, 0))
    /\ UNCHANGED <<run_vars, component_vars, x_auth_token, week, tickets, payload, paper_data, crypto_key,
                   execution, current_url, referer, hop, cookies, received>>

\* _post_login_form once the response to the POST is in, and the test login
\* makes of ticket_url
FormResponse ==
    /\ lpc = "FormSubmitted"
    /\ \E resp \in FormResponses :
          /\ received' = Append(received,
                Response(resp.status, resp.location, None))
          /\ IF TicketUrl(resp) # None
             THEN /\ lpc' = "TicketObtained"
                  /\ current_url' = TicketUrl(resp)
                  /\ referer' = LOGIN_URL
             ELSE /\ lpc' = "Failed"
                  /\ UNCHANGED <<current_url, referer>>
    /\ UNCHANGED <<run_vars, component_vars, x_auth_token, week, tickets, payload, paper_data, sent,
                   crypto_key, execution, hop, cookies>>

\* login, step 4: one round of the loop of _exchange_ticket_for_token, and the
\* end of login when the loop is left
_exchange_ticket_for_token ==
    /\ lpc = "TicketObtained"
    /\ IF current_url = None
       THEN \* session.get raises MissingSchema, no request is sent
            /\ lpc' = "Failed"
            /\ UNCHANGED <<sent, received, cookies, current_url, referer, hop,
                           x_auth_token>>
       ELSE /\ sent' = Append(sent, Request("ticket", current_url, None, 0))
            /\ \E resp \in HopResponses :
                  /\ received' = Append(received,
                        Response(resp.status, resp.location, None))
                  /\ cookies' = IF resp.set_cookie
                                THEN [present |-> TRUE, value |-> CookieToken]
                                ELSE cookies
                  /\ \E o \in {HopOutcome(resp, cookies')} :
                        CASE o.kind = "return" ->
                                /\ x_auth_token' = o.token
                                /\ lpc' = IF o.token # None THEN "TokenExtracted"
                                          ELSE "Failed"
                                /\ UNCHANGED <<current_url, referer, hop>>
                          [] o.kind = "continue" ->
                                /\ referer' = current_url
                                /\ current_url' = resp.location
                                /\ hop' = hop + 1
                                /\ lpc' = IF Exhausted(hop') THEN "Failed"
                                          ELSE "TicketObtained"
                                /\ x_auth_token' = x_auth_token
                          [] OTHER ->
                                /\ lpc' = "Failed"
                                /\ UNCHANGED <<current_url, referer, hop,
                                               x_auth_token>>
    /\ UNCHANGED <<run_vars, component_vars, week, tickets, payload, paper_data, crypto_key,
                   execution>>

\* one call of login with a fixed run around it
InitLogin ==
    /\ Init
    /\ expected_score = 100
    /\ ~ai_enabled
    /\ questions_json = EmptyBank
    /\ question_bank = EmptyBank

NextLogin ==
    \/ _fetch_login_tokens
    \/ _post_login_form
    \/ FormResponse
    \/ _exchange_ticket_for_token

SpecLogin == InitLogin /\ [][NextLogin]_vars

\* every request of login is answered or fails
SpecLoginFair == SpecLogin /\ WF_vars(NextLogin)

-----------------------------------------------------------------------------
(* QuestionProcessor._persist_answer step by step, with the process that may *)
(* crash or be restarted and another process that reads questions.json       *)

\* most calls of _persist_answer in a behaviour
MaxRecordings == 2

\* "questions.json"
QuestionsJson == "questions.json"

\* a plausible slip: the base is written over questions.json itself
tmp_path_in_place == "questions.json"

\* tmp_path
tmp_path == "questions.json.tmp"

\* the content of a file
Content(path) == IF path = QuestionsJson THEN questions_json ELSE tmp_file

\* _load_question_bank: the content of questions.json, {} when it is not a
\* whole JSON document
_load_question_bank ==
    IF QuestionsJson \in partial THEN EmptyBank ELSE questions_json

\* lines 79-106 of _persist_answer: current_bank and action
Updated(bank, question, chosen_answer) ==
    LET existing == Get(bank, question)
        meanings == EntryMeanings(existing)
        seen == {_normalize_text(meanings[i]) : i \in 1..Len(meanings)}
    IN  IF existing = NoEntry
        THEN [bank |-> Put(bank, question, StrEntry(chosen_answer)),
              action |-> "Added"]
        ELSE IF _normalize_text(chosen_answer) \notin seen
        THEN [bank |-> Put(bank, question,
                  StrEntry(JoinMeanings(Append(meanings, chosen_answer)))),
              action |-> "Appended meaning"]
        ELSE [bank |-> Put(bank, question, StrEntry(JoinMeanings(meanings))),
              action |-> "Already exists, no update needed"]

\* "Added" in action or "Appended" in action
Writes(action) == action \in {"Added", "Appended meaning"}

\* the titles and the answers _persist_answer is called with
RecordTitles == {<<"t">>, <<"u">>}
ChosenTexts ==
    {<<"a">>, <<" ", "a", " ", "b">>, <<"a", "|", "b">>, <<" ">>, <<"d">>}

\* _persist_answer is not running
Resting == {"idle", "returned", "caught"}

\* the variables of the run that a recording leaves alone
run_rest == <<pc, now, expected_score, answer_time, error_txt, start_time,
              questions, wrong_count, wrong_indices, idx, correct_answers,
              judge, wrong_options, final_answers, elapsed_time, submitted_at,
              result>>

\* a write to the file at path: data is what the file holds afterwards, torn
\* whether it holds only a part of it
WriteFile(path, data, torn) ==
    /\ questions_json' = IF path = QuestionsJson THEN data ELSE questions_json
    /\ tmp_file' = IF path = QuestionsJson THEN tmp_file ELSE data
    /\ partial' = IF torn THEN partial \cup {path} ELSE partial \ {path}

\* os.replace(src, "questions.json")
os_replace(src) ==
    /\ questions_json' = Content(src)
    /\ tmp_file' = IF src = QuestionsJson THEN tmp_file ELSE EmptyBank
    /\ partial' = IF src = QuestionsJson THEN partial
                  ELSE IF src \in partial
                  THEN (partial \ {src}) \cup {QuestionsJson}
                  ELSE partial \ {QuestionsJson}

\* lines 72-108: the call, the strip, the load and the update of current_bank
PersistCall ==
    /\ rpc \in Resting
    /\ recordings < MaxRecordings
    /\ recordings' = recordings + 1
    /\ store_before' = questions_json
    /\ \E question \in RecordTitles, chosen_answer \in ChosenTexts :
          /\ persist_question' = question
          /\ persist_chosen' = Strip(chosen_answer)
          /\ IF Strip(chosen_answer) = <<>>
             THEN /\ rpc' = "returned"
                  /\ UNCHANGED <<current_bank, persist_action>>
             ELSE \E u \in {Updated(_load_question_bank, question,
                                    Strip(chosen_answer))} :
                      /\ current_bank' = u.bank
                      /\ persist_action' = u.action
                      /\ rpc' = IF Writes(u.action) THEN "computed"
                                ELSE "returned"
    /\ UNCHANGED <<run_rest, ai_enabled, ai_calls, questions_json, question_bank,
                   tmp_file, partial, observed>>
    /\ UNCHANGED <<io_vars, login_vars, normalize_vars, judge_vars, browser_vars>>

\* line 110: open(tmp_path, "w") truncates the file
PersistOpen ==
    /\ rpc = "computed"
    /\ WriteFile(tmp_path, EmptyBank, TRUE)
    /\ rpc' = "opened"
    /\ UNCHANGED <<run_rest, ai_enabled, ai_calls, question_bank, persist_question,
                   persist_chosen, current_bank, persist_action, observed,
                   store_before, recordings>>
    /\ UNCHANGED <<io_vars, login_vars, normalize_vars, judge_vars, browser_vars>>

\* line 111: json.dump writes the base, the file is still open
PersistDump ==
    /\ rpc = "opened"
    /\ WriteFile(tmp_path, current_bank, TRUE)
    /\ rpc' = "dumped"
    /\ UNCHANGED <<run_rest, ai_enabled, ai_calls, question_bank, persist_question,
                   persist_chosen, current_bank, persist_action, observed,
                   store_before, recordings>>
    /\ UNCHANGED <<io_vars, login_vars, normalize_vars, judge_vars, browser_vars>>

\* the end of the with block: the file is flushed and closed
PersistClose ==
    /\ rpc = "dumped"
    /\ WriteFile(tmp_path, current_bank, FALSE)
    /\ rpc' = "closed"
    /\ UNCHANGED <<run_rest, ai_enabled, ai_calls, question_bank, persist_question,
                   persist_chosen, current_bank, persist_action, observed,
                   store_before, recordings>>
    /\ UNCHANGED <<io_vars, login_vars, normalize_vars, judge_vars, browser_vars>>

\* line 112: os.replace(tmp_path, "questions.json")
PersistReplace ==
    /\ rpc = "closed"
    /\ os_replace(tmp_path)
    /\ rpc' = "replaced"
    /\ UNCHANGED <<run_rest, ai_enabled, ai_calls, question_bank, persist_question,
                   persist_chosen, current_bank, persist_action, observed,
                   store_before, recordings>>
    /\ UNCHANGED <<io_vars, login_vars, normalize_vars, judge_vars, browser_vars>>

\* lines 113-114: the bank in memory is updated and _persist_answer returns
PersistReturn ==
    /\ rpc = "replaced"
    /\ question_bank' = current_bank
    /\ rpc' = "returned"
    /\ UNCHANGED <<run_rest, ai_enabled, ai_calls, questions_json, persist_question,
                   persist_chosen, current_bank, persist_action, tmp_file,
                   partial, observed, store_before, recordings>>
    /\ UNCHANGED <<io_vars, login_vars, normalize_vars, judge_vars, browser_vars>>

\* lines 116-117: open, json.dump, the close or os.replace raises, the
\* exception is caught and _persist_answer returns
PersistRaise ==
    /\ rpc \in {"computed", "opened", "dumped", "closed"}
    /\ rpc' = "caught"
    /\ UNCHANGED <<run_rest, ai_enabled, ai_calls, questions_json, question_bank,
                   persist_question, persist_chosen, current_bank,
                   persist_action, tmp_file, partial, observed, store_before,
                   recordings>>
    /\ UNCHANGED <<io_vars, login_vars, normalize_vars, judge_vars, browser_vars>>

\* the process is killed during _persist_answer
Crash ==
    /\ rpc \in {"computed", "opened", "dumped", "closed", "replaced"}
    /\ rpc' = "crashed"
    /\ UNCHANGED <<run_rest, ai_enabled, ai_calls, questions_json, question_bank,
                   persist_question, persist_chosen, current_bank,
                   persist_action, tmp_file, partial, observed, store_before,
                   recordings>>
    /\ UNCHANGED <<io_vars, login_vars, normalize_vars, judge_vars, browser_vars>>

\* the program is started again: QuestionProcessor.__init__ loads the bank
Restart ==
    /\ rpc = "crashed"
    /\ rpc' = "idle"
    /\ question_bank' = _load_question_bank
    /\ UNCHANGED <<run_rest, ai_enabled, ai_calls, questions_json, persist_question,
                   persist_chosen, current_bank, persist_action, tmp_file,
                   partial, observed, store_before, recordings>>
    /\ UNCHANGED <<io_vars, login_vars, normalize_vars, judge_vars, browser_vars>>

\* another process reads questions.json
ReadStore ==
    /\ observed' = [data |-> questions_json, torn |-> QuestionsJson \in partial]
    /\ observed' # observed
    /\ UNCHANGED <<run_rest, ai_enabled, ai_calls, questions_json, question_bank,
                   rpc, persist_question, persist_chosen, current_bank,
                   persist_action, tmp_file, partial, store_before, recordings>>
    /\ UNCHANGED <<io_vars, login_vars, normalize_vars, judge_vars, browser_vars>>

\* the processor on its own: the bank in memory is the one of the file
InitRecord ==
    /\ Init
    /\ expected_score = 100
    /\ ~ai_enabled
    /\ question_bank = questions_json

NextRecord ==
    \/ PersistCall
    \/ PersistOpen
    \/ PersistDump
    \/ PersistClose
    \/ PersistReplace
    \/ PersistReturn
    \/ PersistRaise
    \/ Crash
    \/ Restart
    \/ ReadStore

SpecRecord == InitRecord /\ [][NextRecord]_vars

-----------------------------------------------------------------------------
(* QuestionProcessor._normalize_text called on a text and on its own result *)

\* longest text that is normalized
MaxLen == 4

\* the texts of at most MaxLen characters among a blank and two letters
NormTexts == UNION {[1..n -> {" ", "a", "b"}] : n \in 0..MaxLen}

\* _normalize_text(s), then _normalize_text of what it returned
Normalize ==
    /\ Len(norm_output) < 2
    /\ IF norm_output = <<>>
       THEN \E s \in NormTexts :
               /\ norm_input' = s
               /\ norm_output' = <<_normalize_text(s)>>
       ELSE /\ norm_input' = norm_input
            /\ norm_output' = Append(norm_output, _normalize_text(norm_output[1]))
    /\ UNCHANGED <<run_vars, io_vars, login_vars, record_vars, judge_vars,
                   browser_vars>>

InitNormalize ==
    /\ Init
    /\ expected_score = 100
    /\ ~ai_enabled
    /\ questions_json = EmptyBank
    /\ question_bank = EmptyBank

SpecNormalize == InitNormalize /\ [][Normalize]_vars

-----------------------------------------------------------------------------
(* The judge step by step: the configuration is loaded, get_answer_index     *)
(* finds no answer in the bank and consults the judge, ai_choose_answer      *)
(* makes its attempts                                                        *)

\* the variables of the run the judge leaves alone
judge_rest == <<pc, now, expected_score, answer_time, questions_json,
                question_bank, error_txt, start_time, questions, wrong_count,
                wrong_indices, idx, correct_answers, judge, wrong_options,
                final_answers, elapsed_time, submitted_at, result>>

\* HDUBot.__init__: ai_cfg = load_ai_config(), QuestionProcessor(ai_cfg)
LoadConfig ==
    /\ jpc = "start"
    /\ \E file \in ConfigFiles :
          /\ config_yaml' = file
          /\ ai_cfg' = load_ai_config(file)
          /\ ai_enabled' = load_ai_config(file).enabled
    /\ jpc' = "loaded"
    /\ UNCHANGED <<judge_rest, ai_calls, attempt, ai_requests, ai_resp,
                   ai_returned, ai_sleeps>>
    /\ UNCHANGED <<io_vars, login_vars, record_vars, normalize_vars, browser_vars>>

\* step 2 of get_answer_index and lines 17-56 of ai_choose_answer
ai_choose_answer ==
    /\ jpc = "loaded"
    /\ IF ai_enabled /\ ai_cfg.enabled
       THEN /\ ai_calls' = ai_calls + 1
            /\ attempt' = 1
            /\ IF TotalAttempts(ai_cfg.retries) >= 1
               THEN jpc' = "attempt" /\ ai_returned' = ai_returned
               ELSE jpc' = "returned" /\ ai_returned' = {-1}
       ELSE /\ jpc' = "skipped"
            /\ UNCHANGED <<ai_calls, attempt, ai_returned>>
    /\ UNCHANGED <<judge_rest, ai_enabled, config_yaml, ai_cfg, ai_requests,
                   ai_resp, ai_sleeps>>
    /\ UNCHANGED <<io_vars, login_vars, record_vars, normalize_vars, browser_vars>>

\* one round of the loop of ai_choose_answer: lines 59-96
Attempt ==
    /\ jpc = "attempt"
    /\ ai_requests' = ai_requests + 1
    /\ \E resp \in JudgeResponses :
          /\ ai_resp' = resp
          /\ IF AttemptIndex(resp, JudgeOptions) \in 0..3
             THEN /\ ai_returned' = {AttemptIndex(resp, JudgeOptions)}
                  /\ jpc' = "returned"
                  /\ attempt' = attempt
                  /\ ai_sleeps' = ai_sleeps
             ELSE /\ ai_sleeps' = IF Backoff(attempt, TotalAttempts(ai_cfg.retries))
                                  THEN Append(ai_sleeps, backoff)
                                  ELSE ai_sleeps
                  /\ IF attempt < TotalAttempts(ai_cfg.retries)
                     THEN /\ attempt' = attempt + 1
                          /\ UNCHANGED <<jpc, ai_returned>>
                     ELSE /\ ai_returned' = {-1}
                          /\ jpc' = "returned"
                          /\ attempt' = attempt
    /\ UNCHANGED <<judge_rest, ai_enabled, ai_calls, config_yaml, ai_cfg>>
    /\ UNCHANGED <<io_vars, login_vars, record_vars, normalize_vars, browser_vars>>

InitJudge ==
    /\ Init
    /\ expected_score = 100
    /\ ~ai_enabled
    /\ questions_json = EmptyBank
    /\ question_bank = EmptyBank

NextJudge ==
    \/ LoadConfig
    \/ ai_choose_answer
    \/ Attempt

SpecJudge == InitJudge /\ [][NextJudge]_vars

-----------------------------------------------------------------------------
(* The browser mode: HDU._start_browser_mode, the answering loop, wait, and  *)
(* the timer threads of _start_timer.  Time is in whole seconds: a sleep of  *)
(* one second ends with the next second, and a thread that is ready to run   *)
(* runs before the next second begins, which covers the 0.5 seconds between  *)
(* two polls of wait.                                                        *)

\* the variables of the API run the browser mode leaves alone
browser_rest == <<pc, expected_score, answer_time, ai_enabled, start_time,
                  questions, wrong_count, wrong_indices, idx, wrong_options,
                  final_answers, elapsed_time, submitted_at, result>>
browser_frame == <<browser_rest, io_vars, login_vars, record_vars,
                   normalize_vars, judge_vars>>

\* the variables of the browser mode but the position of the main thread
browser_vars_but_bpc == <<timers, timer_expired, timer_lock, question_options,
                          loop_done_at, expired_at, clicked_at>>

\* what the question processor reads and writes
resolver_vars == <<questions_json, question_bank, error_txt, ai_calls,
                   correct_answers, judge>>

\* what find_question returns: the question and the list of its options
PageQuestions ==
    {[question |-> Title(q), options |-> Options(q)] : q \in RawQuestions}

\* timer_thread when it is started: answer_time_seconds sleeps of one second
\* lie ahead
TimerThread(started, seconds) ==
    [started |-> started, remaining |-> seconds, at |-> "sleep"]

\* a plausible slip: wait submits as soon as the loop is over
WaitOverAtOnce(expired) == TRUE

\* lines 462-466 of wait: the loop is left once timer_expired is set
WaitOver(expired) == expired

\* timer thread k has slept all its seconds and has not set timer_expired yet
Due(k) ==
    \/ timers[k].at = "lock"
    \/ timers[k].at = "sleep" /\ timers[k].remaining = 0

\* some thread is ready to run, and runs before the next second begins
Urgent ==
    \/ timer_lock # 0
    \/ \E k \in 1..Len(timers) : Due(k)
    \/ bpc \in {"wait_log", "submit"}
    \/ bpc = "wait" /\ timer_expired

\* a second passes: every sleeping timer thread has one sleep less ahead, and
\* the time.sleep(1) of the answering loop ends
BrowserTick ==
    /\ bpc \notin {"start", "done"}
    /\ ~Urgent
    /\ now < MaxTime \/ bpc \in {"sleep", "wait"}
    /\ now' = now + 1
    /\ timers' = [k \in 1..Len(timers) |->
                     IF timers[k].at = "sleep" /\ timers[k].remaining > 0
                     THEN [timers[k] EXCEPT !.remaining = @ - 1]
                     ELSE timers[k]]
    /\ bpc' = IF bpc = "sleep" THEN "loop" ELSE bpc
    /\ UNCHANGED <<timer_expired, timer_lock, question_options, loop_done_at,
                   expired_at, clicked_at>>
    /\ UNCHANGED <<resolver_vars, browser_frame>>

\* login_web up to its end: the user presses Enter and _start_timer is
\* called (lines 163-164 and 391-392)
login_web ==
    /\ bpc = "start"
    /\ timers' = Append(timers, TimerThread(now, answer_time))
    /\ bpc' = "logged_in"
    /\ UNCHANGED <<timer_expired, timer_lock, question_options, loop_done_at,
                   expired_at, clicked_at>>
    /\ UNCHANGED <<now, resolver_vars, browser_frame>>

\* lines 703-704 of _start_browser_mode: the user presses Enter once more and
\* _start_timer is called
StartExam ==
    /\ bpc = "logged_in"
    /\ timers' = Append(timers, TimerThread(now, answer_time))
    /\ bpc' = "loop"
    /\ UNCHANGED <<timer_expired, timer_lock, question_options, loop_done_at,
                   expired_at, clicked_at>>
    /\ UNCHANGED <<now, resolver_vars, browser_frame>>

\* line 711: find_question returns the question on the page, or raises when
\* the page shows none
find_question ==
    /\ bpc = "loop"
    /\ \/ /\ Len(correct_answers) < MaxQuestions
          /\ \E found \in PageQuestions : question_options' = {found}
          /\ bpc' = "found"
       \/ /\ question_options' = question_options
          /\ bpc' = "except"
    /\ UNCHANGED <<timers, timer_expired, timer_lock, loop_done_at,
                   expired_at, clicked_at>>
    /\ UNCHANGED <<now, resolver_vars, browser_frame>>

\* line 719: find_answer, which is get_answer_index
find_answer ==
    /\ bpc = "found"
    /\ \E found \in question_options, ai_idx \in JudgeAnswers :
          \E got \in {get_answer_index(question_bank, questions_json,
                                       found.question, found.options,
                                       ai_enabled, ai_idx, TRUE)} :
              /\ got.asked \/ ai_idx = -1
              /\ ai_calls' = ai_calls + (IF got.asked THEN 1 ELSE 0)
              /\ questions_json' = got.questions_json
              /\ question_bank' = got.question_bank
              /\ error_txt' = IF got.logged
                              THEN save_error(error_txt, found.question,
                                              found.options)
                              ELSE error_txt
              /\ correct_answers' = Append(correct_answers, got.idx)
              /\ judge' = Append(judge, IF got.asked THEN {ai_idx} ELSE {})
    /\ bpc' = "click"
    /\ UNCHANGED <<now, browser_vars_but_bpc, browser_frame>>

\* lines 721-731: the option is clicked and the loop sleeps a second, or the
\* click raises
click_answer ==
    /\ bpc = "click"
    /\ bpc' \in {"sleep", "except"}
    /\ UNCHANGED <<now, browser_vars_but_bpc, resolver_vars, browser_frame>>

\* lines 732-738: the exception that ends the loop is caught, the question at
\* hand is written to error.txt, and wait is called
LeaveLoop ==
    /\ bpc = "except"
    /\ IF question_options # {}
       THEN \E found \in question_options :
               error_txt' = save_error(error_txt, found.question, found.options)
       ELSE error_txt' = error_txt
    /\ loop_done_at' = now
    /\ bpc' = "wait_log"
    /\ UNCHANGED <<timers, timer_expired, timer_lock, question_options,
                   expired_at, clicked_at>>
    /\ UNCHANGED <<now, questions_json, question_bank, ai_calls,
                   correct_answers, judge, browser_frame>>

\* lines 453-459 of wait: the lock is taken, the state of the timer logged
WaitLog ==
    /\ bpc = "wait_log"
    /\ timer_lock = 0
    /\ bpc' = "wait"
    /\ UNCHANGED <<now, browser_vars_but_bpc, resolver_vars, browser_frame>>

\* line 463: with self.timer_lock
WaitAcquire ==
    /\ bpc = "wait"
    /\ timer_lock = 0
    /\ timer_lock' = -1
    /\ bpc' = "check"
    /\ UNCHANGED <<timers, timer_expired, question_options, loop_done_at,
                   expired_at, clicked_at>>
    /\ UNCHANGED <<now, resolver_vars, browser_frame>>

\* lines 464-466: timer_expired is read under the lock; the loop is left, or
\* sleeps half a second
WaitCheck ==
    /\ bpc = "check"
    /\ timer_lock' = 0
    /\ bpc' = IF WaitOver(timer_expired) THEN "submit" ELSE "wait"
    /\ UNCHANGED <<timers, timer_expired, question_options, loop_done_at,
                   expired_at, clicked_at>>
    /\ UNCHANGED <<now, resolver_vars, browser_frame>>

\* lines 471-480: the submit button is clicked, or the click raises and the
\* user is told to submit by hand
ClickSubmit ==
    /\ bpc = "submit"
    /\ clicked_at' \in {now, -1}
    /\ bpc' = "done"
    /\ UNCHANGED <<timers, timer_expired, timer_lock, question_options,
                   loop_done_at, expired_at>>
    /\ UNCHANGED <<now, resolver_vars, browser_frame>>

\* line 88 of timer thread k: with self.timer_lock, after the last sleep
TimerAcquire(k) ==
    /\ bpc # "done"
    /\ timers[k].at = "sleep"
    /\ timers[k].remaining = 0
    /\ timer_lock = 0
    /\ timer_lock' = k
    /\ timers' = [timers EXCEPT ![k].at = "lock"]
    /\ UNCHANGED <<bpc, timer_expired, question_options, loop_done_at,
                   expired_at, clicked_at>>
    /\ UNCHANGED <<now, resolver_vars, browser_frame>>

\* lines 89-93 of timer thread k: timer_expired = True, and the lock is
\* released
TimerExpire(k) ==
    /\ bpc # "done"
    /\ timers[k].at = "lock"
    /\ timer_expired' = TRUE
    /\ expired_at' = IF expired_at = -1 THEN now ELSE expired_at
    /\ timer_lock' = 0
    /\ timers' = [timers EXCEPT ![k].at = "done"]
    /\ UNCHANGED <<bpc, question_options, loop_done_at, clicked_at>>
    /\ UNCHANGED <<now, resolver_vars, browser_frame>>

\* HDU.__init__ in browser mode: the bank is loaded, no timer is running
InitBrowser ==
    /\ Init
    /\ expected_score = 100
    /\ question_bank = questions_json

NextBrowser ==
    \/ login_web
    \/ StartExam
    \/ find_question
    \/ find_answer
    \/ click_answer
    \/ LeaveLoop
    \/ WaitLog
    \/ WaitAcquire
    \/ WaitCheck
    \/ ClickSubmit
    \/ BrowserTick
    \/ \E k \in 1..Len(timers) : TimerAcquire(k)
    \/ \E k \in 1..Len(timers) : TimerExpire(k)

SpecBrowser == InitBrowser /\ [][NextBrowser]_vars

-----------------------------------------------------------------------------
(* Properties.  A step of ResolveQuestion that returns is a step from        *)
(* pc = "resolve" with idx' = idx + 1; it handles questions[idx + 1] and     *)
(* appends its outcome at position idx' of correct_answers, judge and        *)
(* final_answers.                                                            *)

CurrentTitle == Title(questions[idx + 1])
CurrentOptions == Options(questions[idx + 1])
CurrentMeanings == EntryMeanings(Get(question_bank, CurrentTitle))

\* some meaning of the bank's entry equals, normalized, one of the options
HasMatch ==
    \E k \in 1..Len(CurrentMeanings) : \E j \in 1..4 :
        _normalize_text(CurrentMeanings[k]) = _normalize_text(CurrentOptions[j])

Iterates == pc = "resolve" /\ idx' = idx + 1

\* (C1) A question whose bank entry has a meaning equal, after normalization,
\* to one of the four options is answered with the index of an option that
\* equals a meaning of the entry, without a call of the judge and without a
\* record added to error.txt.
C1_BankHitNeedsNoJudge ==
    [][(Iterates /\ HasMatch) =>
          /\ correct_answers'[idx'] \in 0..3
          /\ \E k \in 1..Len(CurrentMeanings) :
                _normalize_text(CurrentMeanings[k])
                    = _normalize_text(CurrentOptions[correct_answers'[idx'] + 1])
          /\ judge'[idx'] = {}
          /\ ai_calls' = ai_calls
          /\ error_txt' = error_txt]_vars

C1_Witness ==
    /\ idx = 1
    /\ questions[1] = QuestionB
    /\ question_bank = BankOfMeanings
    /\ correct_answers = <<1>>
    /\ judge = <<{}>>
    /\ ai_enabled
    /\ ai_calls = 0
    /\ error_txt = <<>>

\* the earliest meaning, in stored order, that equals some option
EarliestMatching ==
    CurrentMeanings[MinOf({k \in 1..Len(CurrentMeanings) :
        \E j \in 1..4 :
            _normalize_text(CurrentMeanings[k]) = _normalize_text(CurrentOptions[j])})]

\* (C2) When several meanings match different options the index returned is
\* that of the first option equal to the earliest matching meaning in stored
\* order, wherever the options matched by later meanings stand.
C2_FirstMeaningWins ==
    [][(Iterates /\ HasMatch) =>
          /\ correct_answers'[idx'] \in 0..3
          /\ _normalize_text(CurrentOptions[correct_answers'[idx'] + 1])
                = _normalize_text(EarliestMatching)
          /\ \A j \in 1..correct_answers'[idx'] :
                _normalize_text(CurrentOptions[j]) # _normalize_text(EarliestMatching)]_vars

\* the entry "c | a" against the options a, b, c, d: the first meaning matches
\* option 3, the second option 1, and index 2 (option 3) is returned
C2_Witness ==
    /\ idx = 1
    /\ questions[1] = QuestionA
    /\ question_bank = BankOfMeanings
    /\ EntryMeanings(Get(question_bank, <<"t">>)) = << <<"c">>, <<"a">> >>
    /\ Options(QuestionA) = << <<"a">>, <<"b">>, <<"c">>, <<"d">> >>
    /\ correct_answers = <<2>>

\* the judge was asked about questions[idx + 1] and answered i
JudgeChose(i) == Iterates /\ ~HasMatch /\ ai_enabled /\ judge'[idx'] = {i}

\* text is one of the meanings stored for the title in bank
Holds(bank, title, text) ==
    \E k \in 1..Len(EntryMeanings(Get(bank, title))) :
        EntryMeanings(Get(bank, title))[k] = text

\* (C3, as stated) When the bank gives no match and the enabled judge returns
\* index i, options[i] is recorded for the title in the knowledge base, i is
\* returned and nothing is added to error.txt.
C3_AsStated ==
    [][\A i \in 0..3 : JudgeChose(i) =>
          /\ Holds(questions_json', CurrentTitle, CurrentOptions[i + 1])
          /\ correct_answers'[idx'] = i
          /\ error_txt' = error_txt]_vars

\* (C3, amended) When the bank gives no match and the enabled judge returns
\* index i, i is returned and nothing is added to error.txt; options[i] is
\* recorded for the title, in the file and in memory, when it is not blank,
\* and a blank options[i] leaves the knowledge base as it was.
C3_JudgeAnswerRecordedUnlessBlank ==
    [][\A i \in 0..3 : JudgeChose(i) =>
          /\ correct_answers'[idx'] = i
          /\ error_txt' = error_txt
          /\ Strip(CurrentOptions[i + 1]) # <<>> =>
                /\ Holds(questions_json', CurrentTitle, Strip(CurrentOptions[i + 1]))
                /\ question_bank' = questions_json'
          /\ Strip(CurrentOptions[i + 1]) = <<>> =>
                /\ questions_json' = questions_json
                /\ question_bank' = question_bank]_vars

C3_Witness ==
    /\ idx = 1
    /\ questions[1] = QuestionB
    /\ judge = <<{3}>>
    /\ correct_answers = <<3>>
    /\ Get(questions_json, <<"u">>) = StrEntry(<<"d">>)
    /\ question_bank = questions_json
    /\ error_txt = <<>>

\* (C4) When the bank gives no match and the judge is disabled or returns
\* unresolved, exactly one record, the title and the four options, is added to
\* error.txt and -1 is returned; unless the question is a deliberate miss the
\* letter submitted for it is 'A'.
C4_UnresolvedLoggedOnce ==
    [][(Iterates /\ ~HasMatch /\ (~ai_enabled \/ judge'[idx'] = {-1})) =>
          /\ error_txt' = Append(error_txt,
                [question |-> CurrentTitle, options |-> CurrentOptions])
          /\ correct_answers'[idx'] = -1
          /\ idx \notin wrong_indices => final_answers'[idx'].answer = "A"]_vars

C4_Witness ==
    /\ idx = 1
    /\ ~ai_enabled
    /\ wrong_indices = {}
    /\ correct_answers = <<-1>>
    /\ Len(error_txt) = 1
    /\ error_txt[1].question = Title(questions[1])
    /\ final_answers[1].answer = "A"

\* (C5) Once the paper is fetched no question aborts the run: whatever
\* questions stay unresolved, and also when the write of the error.txt record
\* fails, the loop goes on to the next question and the run reaches the
\* submit step, so no exception leaves the loop.
C5_UnresolvedNeverAborts == pc # "raised"

Clamp(x, lo, hi) == IF x < lo THEN lo ELSE IF x > hi THEN hi ELSE x

Selected == pc \in {"resolve", "submit", "raised"} \/ submitted_at # -1

\* (C6) The number of deliberate misses is clamp(100 - expected_score, 0,
\* len(questions)), not a share of the questions: 80 with 10 questions gives
\* 10, and 100 gives 0.
C6_MissCountIsClamped ==
    /\ Selected =>
          /\ wrong_count = Clamp(100 - expected_score, 0, Len(questions))
          /\ Cardinality(wrong_indices) = wrong_count
          /\ expected_score = 100 => wrong_count = 0
    /\ WrongCount(80, 10) = 10
    /\ \A n \in 0..10 : WrongCount(100, n) = 0
    /\ \A s \in {0, 50, 80, 95, 99, 100, 101, 120} : \A n \in 0..10 :
          WrongCount(s, n) = Clamp(100 - s, 0, n)

C6_Witness ==
    /\ pc = "resolve"
    /\ expected_score = 80
    /\ Len(questions) = 2
    /\ wrong_count = 2
    /\ wrong_indices = {0, 1}

\* the letter of the resolved answer at position i, 'A' when unresolved
ResolvedLetter(i) ==
    IF correct_answers[i] = -1 THEN "A" ELSE Letters[correct_answers[i] + 1]

Differing == {i \in 1..Len(final_answers) : final_answers[i].answer # ResolvedLetter(i)}

\* (C7) The submitted letter of a question differs from its resolved letter
\* exactly when its index is in wrong_indices, which holds wrong_count distinct
\* indices of the paper; so of a complete list exactly wrong_count letters are
\* wrong, and none with expected_score = 100.
C7_WrongExactlyOnMisses ==
    Selected =>
        /\ wrong_indices \subseteq 0..(Len(questions) - 1)
        /\ Cardinality(wrong_indices) = wrong_count
        /\ \A i \in 1..Len(final_answers) :
              (final_answers[i].answer # ResolvedLetter(i)) <=> ((i - 1) \in wrong_indices)
        /\ Len(final_answers) = Len(questions) => Cardinality(Differing) = wrong_count
        /\ expected_score = 100 => Differing = {}

C7_Witness ==
    /\ pc = "done"
    /\ submitted_at # -1
    /\ Len(questions) = 2
    /\ wrong_count = 1
    /\ wrong_indices = {1}
    /\ Differing = {2}

\* the last iteration was a deliberate miss of an unresolved question
MissedUnresolved ==
    /\ Selected
    /\ idx >= 1
    /\ Len(correct_answers) = idx
    /\ (idx - 1) \in wrong_indices
    /\ correct_answers[idx] = -1

BankAfter(bank, title, options, answer) ==
    IF answer \in {{0}, {1}, {2}, {3}}
    THEN _persist_answer(bank, title, options[(CHOOSE i \in 0..3 : answer = {i}) + 1], TRUE).bank
    ELSE bank

\* (C9) What a question leaves in the knowledge base is decided by the bank,
\* the question and the judge's answer alone, not by wrong_indices,
\* expected_score or the letter submitted, so two runs that differ only in
\* expected_score end with the same knowledge base; and whatever is recorded
\* is the text of the resolved option.
C9_BankIgnoresMisses ==
    [][Iterates =>
          /\ questions_json' = BankAfter(questions_json, CurrentTitle,
                                         CurrentOptions, judge'[idx'])
          /\ question_bank' = BankAfter(question_bank, CurrentTitle,
                                        CurrentOptions, judge'[idx'])
          /\ questions_json' # questions_json =>
                /\ correct_answers'[idx'] \in 0..3
                /\ EntryMeanings(Get(questions_json', CurrentTitle))
                      = Append(EntryMeanings(Get(questions_json, CurrentTitle)),
                               CurrentOptions[correct_answers'[idx'] + 1])]_vars

\* a deliberately missed question whose judge answer d was learned while C
\* was submitted
C9_Witness ==
    /\ idx = 1
    /\ questions[1] = QuestionA
    /\ wrong_indices = {0}
    /\ judge = <<{3}>>
    /\ final_answers[1].answer = "C"
    /\ Get(questions_json, <<"t">>) = StrEntry(<<"e", " ", "|", " ", "d">>)

\* (C10) submit_paper is never called before answer_time has passed since
\* start_time: the run waits the remaining time when the questions were done
\* early and does not wait when they were done late, so it submits at the
\* later of the end of resolution and start_time + answer_time.
C10_SubmitAfterAnswerTime ==
    /\ pc = "submit" =>
          now - (start_time + elapsed_time)
              = (IF elapsed_time < answer_time THEN answer_time - elapsed_time ELSE 0)
    /\ submitted_at # -1 =>
          /\ submitted_at - start_time >= answer_time
          /\ submitted_at = (IF start_time + elapsed_time > start_time + answer_time
                             THEN start_time + elapsed_time
                             ELSE start_time + answer_time)

C10_Witness ==
    /\ submitted_at # -1
    /\ elapsed_time = 1
    /\ answer_time = 2
    /\ submitted_at = start_time + 2

\* (C11) The list sent by submit_paper holds one record for every question of
\* the fetched paper, in the order of the paper, each with the paperDetailId
\* of its question and a letter among A, B, C, D.
C11_OneRecordPerQuestion ==
    submitted_at # -1 =>
        /\ Len(payload) = Len(questions)
        /\ \A i \in 1..Len(payload) :
              /\ payload[i].paperDetailId = questions[i].paperDetailId
              /\ payload[i].answer \in Elements(Letters)

\* a paper of two different questions, the second unresolved, was submitted
C11_Witness ==
    /\ submitted_at # -1
    /\ questions = <<QuestionA, QuestionB>>
    /\ correct_answers[2] = -1
    /\ payload = <<[paperDetailId |-> 11, answer |-> "C"],
                   [paperDetailId |-> 12, answer |-> "A"]>>

\* the steps of the requests issued so far
Steps == [i \in 1..Len(sent) |-> sent[i].step]

\* the network steps of a run, in order
StepOrder == <<"login", "week", "paper", "submit">>

\* (C12) The requests of a run are a beginning of login, week lookup, paper
\* fetch, submit, each at most once; the week is looked up only with a token,
\* the paper is fetched only with a week, questions are resolved only once a
\* valid paper is fetched, and submit is requested only after every question
\* is resolved and the pacing wait is over; a run in which login, the week
\* lookup or the paper fetch failed has returned False without a request after
\* the failed one.
C12_StepsInOrder ==
    /\ \E n \in 0..4 : Steps = SubSeq(StepOrder, 1, n)
    /\ Len(sent) >= 2 => x_auth_token # None
    /\ Len(sent) >= 3 => week > 0
    /\ (idx > 0 \/ ai_calls > 0) => Len(sent) >= 3 /\ questions # <<>>
    /\ Len(sent) = 4 =>
          /\ questions # <<>>
          /\ idx = Len(questions)
          /\ Len(final_answers) = Len(questions)
          /\ now >= start_time + answer_time
          /\ pc = "done"
    /\ (Len(sent) >= 1 /\ x_auth_token = None) \/ (Len(sent) >= 2 /\ week = 0)
          \/ (Len(sent) >= 3 /\ questions = <<>>)
          => pc = "done" /\ result = "False" /\ submitted_at = -1

\* a run that went through all four steps, and one that stopped at the week
C12_Witness ==
    /\ Steps = StepOrder
    /\ Len(questions) = 2
    /\ result = "True"

C12_WitnessFailed ==
    /\ Steps = <<"login", "week", "paper">>
    /\ pc = "done"
    /\ result = "False"

\* the key can be decoded and has a size of AES
KeyUsable(key_b64) ==
    B64Decode(key_b64).ok /\ B64Decode(key_b64).len \in AESKeySizes

\* the states of login in order, and the steps login may take between them
LoginOrder ==
    <<"Init", "TokensFetched", "FormSubmitted", "TicketObtained", "TokenExtracted">>

LoginMoves ==
    {<<LoginOrder[k], LoginOrder[k + 1]>> : k \in 1..4}
        \cup {<<LoginOrder[k], "Failed">> : k \in 1..4}
        \cup {<<"TicketObtained", "TicketObtained">>}

\* the requests login has issued at each of its states, and what it has got
LoginProgress ==
    /\ \A i \in 1..Len(sent) :
          sent[i].step = (IF i = 1 THEN "page" ELSE IF i = 2 THEN "form" ELSE "ticket")
    /\ lpc = "Init" => sent = <<>>
    /\ lpc = "TokensFetched" =>
          Len(sent) = 1 /\ crypto_key # None /\ execution # None
    /\ lpc = "FormSubmitted" => Len(sent) = 2 /\ KeyUsable(crypto_key)
    /\ lpc = "TicketObtained" => Len(sent) = 2 + hop /\ hop < max_redirects
    /\ lpc = "TokenExtracted" => Len(sent) >= 3
    /\ (x_auth_token # None) <=> (lpc = "TokenExtracted")

\* after a failure nothing of a later step was requested
LoginFailure ==
    /\ (crypto_key = None \/ execution = None) /\ Len(sent) >= 1 =>
          lpc = "Failed" /\ Len(sent) = 1
    /\ Len(sent) >= 1 /\ crypto_key # None /\ ~KeyUsable(crypto_key) =>
          lpc \in {"TokensFetched", "Failed"} /\ Len(sent) = 1
    /\ Len(received) >= 2 /\ received[2].status # 302 =>
          lpc = "Failed" /\ Len(sent) = 2
    /\ lpc = "Failed" => x_auth_token = None

\* (C13) login goes from Init to TokensFetched, FormSubmitted, TicketObtained
\* and TokenExtracted one state at a time, or from one of them to Failed; it
\* has a token only in TokenExtracted; when the page gives no tokens, the key
\* cannot be used, the form is not answered by 302 or the exchange fails,
\* login ends without a token and without a request of a later step.
C13_LoginInOrder ==
    [][/\ <<lpc, lpc'>> \in LoginMoves
       /\ LoginProgress'
       /\ LoginFailure']_vars

\* login that reached the token after one redirect, the states passed being
\* told by the requests and responses
C13_Witness ==
    /\ lpc = "TokenExtracted"
    /\ Steps = <<"page", "form", "ticket", "ticket">>
    /\ x_auth_token = Abc123

\* login that failed at the encryption, with the page as its only request
C13_WitnessBadKey ==
    /\ lpc = "Failed"
    /\ crypto_key = ShortKey
    /\ Steps = <<"page">>

\* the login page as the server sent it
LoginPage == received[1].body

\* (C14) When the login page has no element of the key or no element of the
\* execution token, login fails and the page is its only request: no form is
\* posted.
C14_NoFormWithoutTokens ==
    (Len(received) >= 1 /\ (LoginPage.croypto = {} \/ LoginPage.flowkey = {})) =>
        /\ lpc = "Failed"
        /\ x_auth_token = None
        /\ Steps = <<"page">>

\* a page with a usable key and no execution token
C14_Witness ==
    /\ Len(received) = 1
    /\ ~LoginPage.raised
    /\ LoginPage.croypto = {GoodKey}
    /\ LoginPage.flowkey = {}
    /\ lpc = "Failed"
    /\ Steps = <<"page">>

\* (C15) When the answer to the POST of the form is not a 302 (or the POST
\* fails), login fails with the POST as its last request, so no GET of the
\* ticket exchange is issued; when the exchange starts, its first GET goes to
\* the Location of the 302.
C15_TicketUrlFrom302 ==
    /\ (Len(received) >= 2 /\ received[2].status # 302) =>
          /\ lpc = "Failed"
          /\ x_auth_token = None
          /\ Steps = <<"page", "form">>
    /\ Len(sent) >= 3 =>
          /\ received[2].status = 302
          /\ sent[3].step = "ticket"
          /\ sent[3].url = received[2].location

\* a 200 that carries a Location: login failed and nothing was fetched from it
C15_Witness ==
    /\ Len(received) = 2
    /\ received[2].status = 200
    /\ received[2].location = TicketLocation
    /\ lpc = "Failed"
    /\ Steps = <<"page", "form">>

\* the first GET of the exchange
C15_WitnessTicket ==
    /\ Len(sent) = 3
    /\ received[2] = Response(302, TicketLocation, None)
    /\ sent[3].url = TicketLocation

\* the part of s after the first c, s itself when c is not in s
AfterFirst(s, c) ==
    LET at == {i \in 1..Len(s) : s[i] = c}
    IN  IF at = {} THEN s ELSE SubSeq(s, MinOf(at) + 1, Len(s))

\* the part of s before the first c, s itself when c is not in s
BeforeFirst(s, c) ==
    LET at == {i \in 1..Len(s) : s[i] = c}
    IN  IF at = {} THEN s ELSE SubSeq(s, 1, MinOf(at) - 1)

\* the value of the parameter token= of the fragment of a URL: the fragment is
\* what follows '#', its parameters follow its '?' and are separated by '&';
\* None when the URL has no fragment or the fragment no such parameter
FragmentToken(url) ==
    IF ~Contains(url, <<"#">>) THEN None
    ELSE LET params == Split(AfterFirst(AfterFirst(url, "#"), "?"), "&")
             named == {k \in 1..Len(params) :
                          /\ HasEq(params[k])
                          /\ BeforeFirst(params[k], "=") = TokenName}
         IN  IF named = {} THEN None
             ELSE AfterFirst(params[MinOf(named)], "=")

\* (C16) Whenever a hop of the ticket exchange is answered by a 302 whose
\* Location has a fragment with a parameter token=, the exchange returns the
\* value of that parameter at that hop, without another request; for
\* https://x/#/done?token=abc123&x=1 the value is abc123.
C16_TokenOfFragmentReturned ==
    /\ FragmentToken(LocationDone) = Abc123
    /\ \A i \in 3..Len(received) :
          (received[i].status = 302 /\ FragmentToken(received[i].location) # None) =>
              /\ i = Len(received)
              /\ Len(sent) = Len(received)
              /\ lpc = "TokenExtracted"
              /\ x_auth_token = FragmentToken(received[i].location)

\* the Location of the example was received and the exchange goes on
C16_ExampleFollowed ==
    /\ Len(received) = 3
    /\ received[3] = Response(302, LocationDone, None)
    /\ lpc = "TicketObtained"
    /\ current_url = LocationDone
    /\ x_auth_token = None

\* a Location whose fragment starts with the parameters gives the token
C16_QueryReturned ==
    /\ Len(received) = 3
    /\ received[3] = Response(302, LocationQuery, None)
    /\ lpc = "TokenExtracted"
    /\ x_auth_token = Abc123

\* the last response of the exchange, when there is one
LastHop == received[Len(received)]

\* (C17) After every hop that is answered, whose Location gives no token and
\* at which the cookie jar holds X-Auth-Token, the exchange has returned the
\* value of the cookie; so an exchange whose jar holds the cookie has not
\* failed.
C17_CookieReturned ==
    (/\ Len(received) >= 3
     /\ Len(sent) = Len(received)
     /\ LastHop.status # 0
     /\ FragmentToken(LastHop.location) = None
     /\ cookies.present) =>
        /\ lpc = "TokenExtracted"
        /\ x_auth_token = cookies.value

\* the cookie was set during the chain and the exchange used up its rounds
C17_CookieChainFailed ==
    /\ cookies.present
    /\ hop = max_redirects
    /\ lpc = "Failed"
    /\ x_auth_token = None
    /\ \A i \in 3..Len(received) : received[i].location = LocationPlain

\* the cookie is returned at a response that is not a 302
C17_CookieAtLastHop ==
    /\ Len(received) = 4
    /\ received[3].status = 302
    /\ received[4].status = 200
    /\ lpc = "TokenExtracted"
    /\ x_auth_token = CookieToken

\* the GETs of the ticket exchange issued so far
TicketRequests == Cardinality({i \in 1..Len(sent) : sent[i].step = "ticket"})

\* login has returned
LoginOver == lpc \in {"TokenExtracted", "Failed"}

\* the token login holds was found in a fragment or is the cookie's value
TokenWasFound ==
    \/ \E i \in 3..Len(received) : FragmentToken(received[i].location) = x_auth_token
    \/ cookies.present /\ x_auth_token = cookies.value

ApiRequests == {i \in 1..Len(sent) : sent[i].step \in {"week", "paper", "submit"}}

\* (C19) Every call of fetch_current_week, get_new_paper and submit_paper
\* makes one new ticket and sends it with the token of login in the headers
\* of its request: as many tickets are made as requests are sent, every
\* request carries a made ticket and the token, and no two requests carry the
\* same ticket.
C19_FreshTicketPerRequest ==
    /\ tickets = Cardinality(ApiRequests)
    /\ \A i \in ApiRequests :
          /\ sent[i].ticket \in 1..tickets
          /\ sent[i].token = x_auth_token
          /\ sent[i].token # None
    /\ \A i, j \in ApiRequests : i # j => sent[i].ticket # sent[j].ticket

\* the three requests of a run with their three tickets
C19_Witness ==
    /\ Steps = StepOrder
    /\ tickets = 3
    /\ sent[2].ticket = 1 /\ sent[3].ticket = 2 /\ sent[4].ticket = 3
    /\ sent[4].token = Abc123

\* the response to the GET of fetch_current_week, when it is in
WeekResponse == received[2]

\* (C20) When the week lookup is answered with a status other than 200, or
\* with a week that is not greater than 0, fetch_current_week returns no week
\* and the run ends as failed: the week lookup is its last request, no paper
\* is requested and nothing is submitted.
C20_NoWeekAbortsRun ==
    (Len(received) >= 2 /\ (WeekResponse.status # 200 \/ WeekResponse.body <= 0)) =>
        /\ week = 0
        /\ pc = "done"
        /\ result = "False"
        /\ Steps = <<"login", "week">>
        /\ questions = <<>>
        /\ submitted_at = -1
        /\ payload = <<>>

\* a 500 whose body names week 1
C20_Witness ==
    /\ Len(received) = 2
    /\ WeekResponse.status = 500
    /\ WeekResponse.body = 1
    /\ pc = "done"
    /\ result = "False"
    /\ Steps = <<"login", "week">>

\* a 200 with week 0
C20_WitnessWeekZero ==
    /\ Len(received) = 2
    /\ WeekResponse.status = 200
    /\ WeekResponse.body = 0
    /\ pc = "done"
    /\ result = "False"

\* the response to the GET of get_new_paper, when it is in
PaperResponse == received[3]

\* the requests of get_new_paper among those issued
PaperRequests == Cardinality({i \in 1..Len(sent) : sent[i].step = "paper"})

\* the answered responses that are neither a 200 nor the 400 of the rate limit
OtherFailures ==
    {resp \in PaperResponses :
        ~resp.raised /\ resp.status # 200
            /\ ~(resp.status = 400 /\ RateLimit(resp.body))}

\* (C21) When the paper fetch is answered by a 400 that carries the rate-limit
\* code, what get_new_paper returns to its caller differs from what it returns
\* for any other response that is not a 200, and the paper is requested once.
C21_RateLimitDistinct ==
    /\ PaperRequests <= 1
    /\ (Len(received) >= 3 /\ PaperResponse.status = 400
            /\ RateLimit(PaperResponse.body)) =>
          \A other \in OtherFailures : paper_data # PaperOf(other)

\* the rate-limit response was received, get_new_paper returned None as it
\* does for a 500, and the run ended as failed without another request
C21_RateLimitedAsNone ==
    /\ Len(received) = 3
    /\ PaperResponse = Response(400, None, ErrorBody(2, TRUE))
    /\ paper_data = NoPaper
    /\ paper_data = PaperOf([raised |-> FALSE, status |-> 500, body |-> TextBody])
    /\ pc = "done"
    /\ result = "False"
    /\ PaperRequests = 1

\* the response to the POST of submit_paper, when it is in
SubmitResponse == received[Len(received)]

\* (C22) Once submit_paper was called the run is over and its status is what
\* submit_paper returned: True when the POST was answered with status 200,
\* False for every other status and when the POST raised.
C22_SubmitSucceedsOn200 ==
    submitted_at # -1 =>
        /\ pc = "done"
        /\ sent[Len(sent)].step = "submit"
        /\ Len(received) = Len(sent)
        /\ result \in {"True", "False"}
        /\ (result = "True") <=> (SubmitResponse.status = 200)

\* a run whose POST was answered with 200
C22_Witness ==
    /\ submitted_at # -1
    /\ SubmitResponse.status = 200
    /\ result = "True"

\* a run whose POST was answered with 201, and one whose POST raised
C22_WitnessCreated ==
    /\ submitted_at # -1
    /\ SubmitResponse.status = 201
    /\ result = "False"

C22_WitnessRaised ==
    /\ submitted_at # -1
    /\ SubmitResponse.status = 0
    /\ result = "False"

\* the meanings without the whitespace around them
Stripped(meanings) == [k \in 1..Len(meanings) |-> Strip(meanings[k])]

\* the meanings stored for the title of the last recording, before and after it
MeaningsBefore == Stripped(EntryMeanings(Get(store_before, persist_question)))
MeaningsAfter == Stripped(EntryMeanings(Get(questions_json, persist_question)))

\* the answer of the last recording is, normalized, among the meanings the
\* entry held
AlreadyPresent ==
    \E k \in 1..Len(MeaningsBefore) :
        _normalize_text(MeaningsBefore[k]) = _normalize_text(persist_chosen)

\* _persist_answer has returned from recording an answer that is not blank
Recorded == rpc = "returned" /\ recordings > 0 /\ persist_chosen # <<>>

\* (C23) After a recording of an answer whose normalized form was among the
\* entry's meanings, questions.json is what it was; recording the same answer
\* once more leaves questions.json as it is; after a recording of an answer
\* that was not among them, the entry's meanings are the former ones, in their
\* order, followed by the answer as one more meaning.
C23_RecordingIsIdempotent ==
    Recorded =>
        /\ AlreadyPresent => questions_json = store_before
        /\ _persist_answer(questions_json, persist_question, persist_chosen,
                           TRUE).bank = questions_json
        /\ ~AlreadyPresent => MeaningsAfter = Append(MeaningsBefore, persist_chosen)

\* the answer a|b recorded twice for a title without entry: the first call
\* stored "a|b", the second appended it again
C23_RecordedTwiceAppendsTwice ==
    /\ Recorded
    /\ recordings = 2
    /\ persist_chosen = <<"a", "|", "b">>
    /\ Get(store_before, persist_question) = StrEntry(<<"a", "|", "b">>)
    /\ Get(questions_json, persist_question)
          = StrEntry(<<"a", " ", "|", " ", "b", " ", "|", " ", "a", "|", "b">>)

\* an answer that was present leaves the file alone, a new one is appended
C23_PresentLeftAlone ==
    /\ Recorded
    /\ AlreadyPresent
    /\ persist_chosen = <<"a", " ", "b">>
    /\ questions_json = BankOfMeanings

C23_NewAppended ==
    /\ Recorded
    /\ store_before = BankOfMeanings
    /\ persist_chosen = <<"d">>
    /\ Get(questions_json, <<"t">>)
          = StrEntry(<<"c", " ", "|", " ", "a", " ", "|", " ", "d">>)

\* no two meanings of the entry have the same normalized form
Distinct(meanings) ==
    \A i, j \in 1..Len(meanings) :
        i # j => _normalize_text(meanings[i]) # _normalize_text(meanings[j])

\* (C24) No entry of questions.json holds two meanings with the same
\* normalized form, whatever answers were recorded, the base at the start
\* holding no such entry.
C24_NoDuplicateMeanings ==
    \A title \in DOMAIN questions_json :
        Distinct(EntryMeanings(questions_json[title]))

\* the entry "c | a" after the answer a|b was recorded: c, a, a, b
C24_DuplicateStored ==
    /\ Recorded
    /\ store_before = BankOfMeanings
    /\ persist_chosen = <<"a", "|", "b">>
    /\ MeaningsAfter = << <<"c">>, <<"a">>, <<"a">>, <<"b">> >>

\* (C25) questions.json always holds a whole base, and another process never
\* reads a part of one: from the call of _persist_answer until os.replace it
\* is the base the call found, after os.replace the updated base, also when
\* the process is killed or a write raises in between.
C25_StoreAlwaysWhole ==
    /\ QuestionsJson \notin partial
    /\ ~observed.torn
    /\ recordings > 0 => questions_json \in {store_before, current_bank}
    /\ rpc \in {"computed", "opened", "dumped", "closed"} =>
          questions_json = store_before
    /\ rpc = "replaced" => questions_json = current_bank

\* the process was killed while questions.json.tmp was being written, and
\* another process has read the former base, which questions.json still holds
C25_Witness ==
    /\ rpc = "crashed"
    /\ "questions.json.tmp" \in partial
    /\ tmp_file = current_bank
    /\ current_bank # store_before
    /\ questions_json = store_before
    /\ questions_json = BankOfMeanings
    /\ observed = [data |-> BankOfMeanings, torn |-> FALSE]

\* the process was killed after os.replace: the updated base is in place
C25_WitnessReplaced ==
    /\ rpc = "crashed"
    /\ partial = {}
    /\ questions_json = current_bank
    /\ questions_json # store_before

\* (C26) _normalize_text applied to what it returned returns it unchanged, for
\* every text; what it returns holds no whitespace.
C26_NormalizeIsIdempotent ==
    /\ Len(norm_output) = 2 => norm_output[2] = norm_output[1]
    /\ \A k \in 1..Len(norm_output) : Inked(norm_output[k]) = 1..Len(norm_output[k])

\* " a b" gives "ab", and "ab" gives "ab"
C26_Witness ==
    /\ norm_input = <<" ", "a", " ", "b">>
    /\ norm_output = << <<"a", "b">>, <<"a", "b">> >>

\* the retry count of config.yaml, and 1 + max(0, r) for it
ConfiguredRetries == config_yaml.retries
MostRequests == 1 + (IF ConfiguredRetries < 0 THEN 0 ELSE ConfiguredRetries)

\* the last attempt failed: the request raised, the status was not 200, the
\* body was no JSON, or no answer was parsed from it
LastAttemptFailed ==
    \/ ai_resp.raised
    \/ ai_resp.status # 200
    \/ ~ai_resp.json
    \/ ParseAnswer(ai_resp.content, JudgeOptions) = -1

\* (C27) ai_choose_answer issues at most 1 + max(0, r) requests, r being the
\* configured retry count; it goes on to another attempt only after a failed
\* one, and returns an answer at the first attempt that yields one; when it
\* returns unresolved every attempt has failed and exactly 1 + max(0, r)
\* requests were issued, 3 for r = 2.
C27_AttemptsBounded ==
    /\ ai_requests <= MostRequests
    /\ jpc = "attempt" =>
          /\ ai_requests = attempt - 1
          /\ ai_returned = {}
          /\ ai_requests >= 1 => LastAttemptFailed
    /\ jpc = "returned" =>
          /\ ai_requests = attempt
          /\ ai_returned \in {{-1}, {0}, {1}, {2}, {3}}
          /\ ai_returned # {-1} => ~LastAttemptFailed
          /\ ai_returned = {-1} =>
                /\ LastAttemptFailed
                /\ ai_requests = MostRequests
                /\ ConfiguredRetries = 2 => ai_requests = 3

\* retries: 2 and a judge that failed three times
C27_Witness ==
    /\ ConfiguredRetries = 2
    /\ jpc = "returned"
    /\ ai_returned = {-1}
    /\ ai_requests = 3
    /\ ai_resp.status = 500

\* an answer at the second of three attempts; retries: -1 and one request
C27_WitnessSecondAttempt ==
    /\ ConfiguredRetries = 2
    /\ jpc = "returned"
    /\ ai_returned = {1}
    /\ ai_requests = 2

C27_WitnessNegative ==
    /\ ConfiguredRetries = -1
    /\ jpc = "returned"
    /\ ai_returned = {-1}
    /\ ai_requests = 1

\* a request of the judge was answered with a status 200 and a JSON body
Answered == ai_requests >= 1 /\ ~ai_resp.raised /\ ai_resp.status = 200 /\ ai_resp.json

\* the response text, and the text the code parses
ResponseText == Strip(ai_resp.content)
ParsedText == Upper(ResponseText)

\* idx of the last attempt, -1 when it failed
LastIndex ==
    IF jpc = "returned" /\ ai_returned # {-1}
    THEN CHOOSE i \in 0..3 : ai_returned = {i}
    ELSE -1

\* the attempt failed and is retried while attempts are left
RetryableFailure ==
    /\ LastIndex = -1
    /\ jpc = "attempt" \/ (jpc = "returned" /\ ai_requests = MostRequests)

\* the positions of the capital letters A-D of a text, and of its digits 1-4
\* that stand between characters that are no word characters
CapitalsOf(t) == {i \in 1..Len(t) : t[i] \in {"A", "B", "C", "D"}}
StandaloneOf(t) ==
    {i \in 1..Len(t) :
        /\ t[i] \in {"1", "2", "3", "4"}
        /\ i = 1 \/ t[i - 1] \in NonWord
        /\ i = Len(t) \/ t[i + 1] \in NonWord}

\* the options whose trimmed text, not empty, is in a text
OptionsIn(t) ==
    {k \in 1..4 : Strip(JudgeOptions[k]) # <<>> /\ Contains(t, Strip(JudgeOptions[k]))}

LetterValue(c) == CHOOSE i \in 0..3 : Letters[i + 1] = c
DigitValue(c) == CHOOSE i \in 0..3 : Digits[i + 1] = c

C28_WitnessLowerCase ==
    /\ Answered
    /\ ai_resp.content = <<"3", " ", "a">>
    /\ jpc = "returned"
    /\ ai_returned = {0}

C28_WitnessDigit ==
    /\ Answered
    /\ ai_resp.content = <<"2">>
    /\ ai_returned = {1}

C28_WitnessFailure ==
    /\ Answered
    /\ ai_resp.content = <<"{", "}">>
    /\ jpc = "attempt"
    /\ attempt = 2

\* (C29) When the response text holds no capital letter A-D and no standalone
\* digit 1-4 but holds, in the same letter case, the trimmed text of an
\* option, the attempt gives the index of the first such option.
C29_OptionTextResolves ==
    (/\ Answered
     /\ CapitalsOf(ResponseText) = {}
     /\ StandaloneOf(ResponseText) = {}
     /\ OptionsIn(ResponseText) # {}) =>
        LastIndex = MinOf(OptionsIn(ResponseText)) - 1

\* the response "tree", the text of option A, was a failure at every attempt
C29_OptionTextUnresolved ==
    /\ Answered
    /\ ai_resp.content = JudgeOptions[1]
    /\ jpc = "returned"
    /\ ai_returned = {-1}
    /\ ai_requests = 3

\* a response that holds options B and C, which upper() leaves as they are
C29_FirstOptionChosen ==
    /\ Answered
    /\ ai_resp.content = <<"U+6811", " ", "U+6728">>
    /\ ai_returned = {1}

\* config.yaml names an endpoint and a model
Configured ==
    /\ config_yaml.exists
    /\ Strip(config_yaml.base_url) # <<>>
    /\ Strip(config_yaml.model) # <<>>

\* the judge was called or a request was sent to it
JudgeUsed == ai_calls > 0 \/ ai_requests > 0

\* (C30, as stated) No request is sent to the judge unless the configuration
\* enables it and names an endpoint and a model; in every other configuration
\* the resolver goes on without an answer of the judge and without a request.
C30_AsStated ==
    /\ JudgeUsed => (config_yaml.enable = "true" /\ Configured)
    /\ (jpc # "start" /\ ~(config_yaml.enable = "true" /\ Configured)) =>
          (jpc \in {"loaded", "skipped"} /\ ai_requests = 0 /\ ai_returned = {})

\* (C30, amended) No request is sent to the judge unless the configuration
\* names an endpoint and a model and does not switch the judge off: its key
\* enable (or enabled) is true, or is absent, and then the judge is enabled by
\* default; in every other configuration the resolver goes on without an
\* answer of the judge and without a request.
C30_NoRequestUnlessConfigured ==
    /\ JudgeUsed => (config_yaml.enable # "false" /\ Configured)
    /\ (jpc # "start" /\ ~(config_yaml.enable # "false" /\ Configured)) =>
          /\ ~ai_enabled
          /\ jpc \in {"loaded", "skipped"}
          /\ ai_calls = 0
          /\ ai_requests = 0
          /\ ai_returned = {}

\* an endpoint and a model without the key enable: the judge is asked
C30_Witness ==
    /\ config_yaml.enable = "absent"
    /\ Configured
    /\ ai_requests = 1
    /\ ai_returned = {1}

\* enable: true without a model: the judge is skipped
C30_WitnessNoModel ==
    /\ config_yaml.exists
    /\ config_yaml.enable = "true"
    /\ config_yaml.base_url = Endpoint
    /\ config_yaml.model = <<>>
    /\ jpc = "skipped"
    /\ ai_requests = 0

\* get_new_paper returned a paper without paperId or without questions
PaperUnusable ==
    /\ paper_data.kind = "paper"
    /\ ~paper_data.paperId \/ paper_data.list = <<>>

SubmitRequests == {k \in 1..Len(sent) : sent[k].step = "submit"}

\* (C39) When the paper fetched has no paperId or an empty list of questions
\* the run ends as failed: api_mode_answer returns False, no question is
\* resolved, questions.json, the bank in memory and error.txt stay as they
\* were, the judge is not called and no submit request is sent.
C39_UnusablePaperEndsRun ==
    [][PaperUnusable' =>
          /\ pc' = "done"
          /\ result' = "False"
          /\ UNCHANGED <<questions_json, question_bank, error_txt, ai_calls,
                         idx, correct_answers, final_answers, submitted_at,
                         payload>>
          /\ idx' = 0
          /\ final_answers' = <<>>
          /\ {k \in 1..Len(sent') : sent'[k].step = "submit"} = {}]_vars

\* a paper with paperId and an empty list
C39_Witness ==
    /\ PaperUnusable
    /\ paper_data.paperId
    /\ paper_data.list = <<>>
    /\ pc = "done"
    /\ result = "False"
    /\ SubmitRequests = {}

\* a paper with questions and no paperId
C39_WitnessNoId ==
    /\ PaperUnusable
    /\ ~paper_data.paperId
    /\ paper_data.list # <<>>
    /\ pc = "done"
    /\ result = "False"

\* the judge was asked about the current question and answered with index i
JudgeAnswered(i) == Iterates /\ judge'[idx'] = {i}

\* text equals, normalized, a meaning stored for the title in bank
Present(bank, title, text) ==
    \E k \in 1..Len(EntryMeanings(Get(bank, title))) :
        _normalize_text(EntryMeanings(Get(bank, title))[k]) = _normalize_text(text)

\* the step rewrites questions.json or changes the bank in memory
Relearns == questions_json' # questions_json \/ question_bank' # question_bank

\* the titles of the questions the server sends
PaperTitles == {Title(q) : q \in RawQuestions}

\* (C34) During a run questions.json is rewritten only in the resolution of a
\* question for which the judge gave a meaning the entry of the title does not
\* hold yet, and no entry of another title changes.  A bank hit, a judge that
\* is not asked or fails, and a meaning that is already present leave
\* questions.json and the bank in memory as they were.
C34_RewrittenOnlyWhenLearned ==
    [][/\ ~Iterates => questions_json' = questions_json
       /\ (Iterates /\ Relearns) =>
             \E i \in 0..3 :
                /\ JudgeAnswered(i)
                /\ ~HasMatch
                /\ ~Present(questions_json, CurrentTitle, CurrentOptions[i + 1])
                /\ \A t \in PaperTitles \ {CurrentTitle} :
                      Get(questions_json', t) = Get(questions_json, t)
       /\ (Iterates /\ (\/ HasMatch
                        \/ judge'[idx'] \in {{}, {-1}}
                        \/ \E i \in 0..3 :
                              /\ JudgeAnswered(i)
                              /\ Present(questions_json, CurrentTitle,
                                         CurrentOptions[i + 1]))) =>
             UNCHANGED <<questions_json, question_bank>>]_vars

\* two questions of one title: the first was learned from the judge, the
\* second was a bank hit and left the file alone
C34_Witness ==
    /\ idx = 2
    /\ questions = <<QuestionA, QuestionA>>
    /\ judge = <<{3}, {}>>
    /\ correct_answers = <<3, 3>>
    /\ Get(questions_json, <<"t">>) = StrEntry(<<"d">>)
    /\ question_bank = questions_json

\* a judge that failed: nothing was learned
C34_WitnessJudgeFailed ==
    /\ idx = 1
    /\ judge = <<{-1}>>
    /\ questions_json = EmptyBank
    /\ question_bank = EmptyBank

\* resolution has begun: reload_question_bank was called
Resolving ==
    \/ pc \in {"resolve", "submit", "raised"}
    \/ pc = "done" /\ submitted_at # -1

\* (C37) From the reload of the bank at the start of resolution on, and after
\* every call of get_answer_index, the bank in memory equals the content of
\* questions.json, no other process writing the file; also when a write of
\* the file fails.
C37_MemoryEqualsFile == Resolving => question_bank = questions_json

\* a bank that was stale when the run began, reloaded, and then taught a
\* meaning by the judge
C37_Witness ==
    /\ pc = "resolve"
    /\ idx = 1
    /\ questions[1] = QuestionA
    /\ judge = <<{3}>>
    /\ Get(question_bank, <<"t">>) = StrEntry(<<"e", " ", "|", " ", "d">>)
    /\ question_bank = questions_json

\* (C38) When the judge answers with index i, get_answer_index returns i and
\* adds nothing to error.txt whether or not the answer could be written; the
\* answer is either recorded, in questions.json and in the bank in memory, or,
\* when the write fails, both are left as they were before the call.
C38_WriteFailureIsHarmless ==
    [][\A i \in 0..3 :
          JudgeAnswered(i) =>
             /\ correct_answers'[idx'] = i
             /\ error_txt' = error_txt
             /\ \/ UNCHANGED <<questions_json, question_bank>>
                \/ /\ questions_json'
                         = _persist_answer(questions_json, CurrentTitle,
                                           CurrentOptions[i + 1], TRUE).bank
                   /\ question_bank' = questions_json']_vars

\* the judge chose d for a question of an empty bank and the write failed:
\* index 3 was returned, the bank is still empty and error.txt holds nothing
C38_Witness ==
    /\ idx = 1
    /\ questions[1] = QuestionA
    /\ ai_enabled
    /\ judge = <<{3}>>
    /\ correct_answers = <<3>>
    /\ error_txt = <<>>
    /\ questions_json = EmptyBank
    /\ question_bank = EmptyBank

\* api_mode_answer has returned True or False to its caller
StatusReturned == pc = "done" /\ result \in {"True", "False"}

\* (C32) Every run of api_mode_answer ends with True or False returned to the
\* caller, every network call returning or timing out; no failure of a step
\* leaves the run without a status.
C32_RunEndsWithStatus == <>StatusReturned

\* the run was left by the exception of save_error: nothing was returned
C32_EndedWithoutStatus ==
    /\ pc = "raised"
    /\ result = "none"
    /\ submitted_at = -1

\* runs that ended with each status
C32_ReturnedTrue == StatusReturned /\ result = "True" /\ submitted_at # -1
C32_ReturnedFalse == StatusReturned /\ result = "False" /\ week = 0


\* a run whose writes all succeed is at one of the steps of api_mode_answer
\* or has returned its status
C32_StatusUnlessWriteFails ==
    \/ pc \in {"start", "login", "week", "paper", "select", "resolve", "submit"}
    \/ StatusReturned

\* (C33) Every wait of ai_choose_answer lasts 0.5 seconds, and a wait follows
\* every failed attempt but the last: while attempts are left there are as
\* many waits as failed attempts; a call that returns after n attempts, all
\* failed or the last one successful, has waited n - 1 times, so no wait
\* follows a successful attempt or the final failure.
C33_BackoffBetweenAttempts ==
    /\ \A k \in 1..Len(ai_sleeps) : ai_sleeps[k] = 5
    /\ jpc \in {"start", "loaded", "skipped"} => ai_sleeps = <<>>
    /\ jpc = "attempt" => Len(ai_sleeps) = ai_requests
    /\ jpc = "returned" => Len(ai_sleeps) = ai_requests - 1

\* three failed attempts and two waits
C33_Witness ==
    /\ jpc = "returned"
    /\ ai_returned = {-1}
    /\ ai_requests = 3
    /\ ai_sleeps = <<5, 5>>

\* an answer at the second attempt: one wait, after the first
C33_WitnessSuccess ==
    /\ jpc = "returned"
    /\ ai_returned = {1}
    /\ ai_requests = 2
    /\ ai_sleeps = <<5>>

\* a single attempt that failed: no wait
C33_WitnessSingle ==
    /\ jpc = "returned"
    /\ ai_returned = {-1}
    /\ ai_requests = 1
    /\ ai_sleeps = <<>>


-----------------------------------------------------------------------------
\* the questions of the run that ended unresolved
Unresolved ==
    Cardinality({k \in 1..Len(correct_answers) : correct_answers[k] = -1})

\* the log before a step is the beginning of the log after it
LogPrefix(before, after) ==
    /\ Len(before) <= Len(after)
    /\ SubSeq(after, 1, Len(before)) = before

\* C31: error.txt is append-only, its earlier content is a prefix of its
\* current content after every step, and the records added during a run are
\* as many as the questions of the run that ended unresolved.
C31_LogMatchesUnresolved ==
    [][/\ LogPrefix(error_txt, error_txt')
       /\ Len(error_txt') - Len(error_txt) = Unresolved' - Unresolved]_vars

\* the half of C31 that holds in the browser mode too: nothing is ever taken
\* from error.txt
C31_AppendOnly == [][LogPrefix(error_txt, error_txt')]_vars

\* the browser loop has ended with every question resolved, and error.txt
\* holds a record
C31_ResolvedButLogged ==
    /\ bpc = "wait_log"
    /\ correct_answers # <<>>
    /\ Unresolved = 0
    /\ Len(error_txt) = 1

\* the browser loop has ended at an unresolved question, which error.txt
\* records twice
C31_LoggedTwice ==
    /\ bpc = "wait_log"
    /\ Len(correct_answers) = 1
    /\ Unresolved = 1
    /\ Len(error_txt) = 2
    /\ error_txt[1] = error_txt[2]

\* the API pipeline has logged an unresolved question
C31_WitnessApi ==
    /\ bpc = "start"
    /\ Unresolved > 0
    /\ Len(error_txt) = Unresolved


-----------------------------------------------------------------------------
\* the later of two moments
Later(a, b) == IF a >= b THEN a ELSE b

\* C35: in the browser mode, however the timer threads and the answering loop
\* interleave, timer_expired never goes back from true to false, it is set
\* only by a timer thread that holds the lock, and wait clicks submit only
\* once it is set, at the later of the end of the loop and the expiry of the
\* timer.
C35_SubmitAfterTimer ==
    [][/\ timer_expired => timer_expired'
       /\ timer_expired' # timer_expired => timer_lock \in 1..Len(timers)
       /\ bpc' = "submit" => timer_expired'
       /\ clicked_at' # clicked_at =>
             /\ timer_expired
             /\ expired_at # -1
             /\ loop_done_at # -1
             /\ clicked_at' = Later(loop_done_at, expired_at)]_vars

\* submit was clicked when the timer expired, the loop having ended before
C35_Witness ==
    /\ clicked_at # -1
    /\ loop_done_at < expired_at
    /\ clicked_at = expired_at

\* submit was clicked when the loop ended, the timer having expired before
C35_WitnessLoopLater ==
    /\ clicked_at # -1
    /\ expired_at < loop_done_at
    /\ clicked_at = loop_done_at

\* wait holds the lock while a timer thread is due to set timer_expired
C35_WitnessContended ==
    /\ bpc = "check"
    /\ timer_lock = -1
    /\ ~timer_expired
    /\ \E k \in 1..Len(timers) : Due(k)


-----------------------------------------------------------------------------
\* the moment _start_timer was called last
LastTimerStart == timers[Len(timers)].started

\* C36: a browser-mode run starts exactly one timer thread, when the exam is
\* started, so timer_expired is not set before answer_time_seconds have
\* passed since the last start of a timer, and submit is not clicked before
\* that either.
C36_OneTimerFullTime ==
    /\ bpc \notin {"start", "logged_in"} => Len(timers) = 1
    /\ Len(timers) <= 1
    /\ timer_expired => expired_at >= LastTimerStart + answer_time
    /\ clicked_at # -1 => clicked_at >= LastTimerStart + answer_time

\* what holds instead: timer_expired is not set before answer_time_seconds
\* have passed since the first start of a timer
C36_FullTimeSinceFirstStart ==
    /\ timer_expired => expired_at >= timers[1].started + answer_time
    /\ clicked_at # -1 => clicked_at >= timers[1].started + answer_time

\* the answering loop runs with two timer threads
C36_TwoTimers ==
    /\ bpc = "loop"
    /\ Len(timers) = 2

\* submit was clicked before answer_time_seconds had passed since the timer
\* was started last
C36_EarlySubmit ==
    /\ clicked_at # -1
    /\ clicked_at < LastTimerStart + answer_time

====
